---- MODULE Spec2Model ----
(***************************************************************************)
(* Role and membership authorization (OrgValidator, AuthzService,          *)
(* StarterAuthzService, UserService.inviteUserToOrganization) and the      *)
(* calculation-status check of CalculatedImpactService, as state machine.  *)
(***************************************************************************)
EXTENDS Integers, Sequences, FiniteSets, TLC

(* ------------------------------ bounds --------------------------------- *)
\* number of user ids the user collection can hold
NumUsers == 4
\* number of organization ids (each either stored or unknown to the database)
NumOrgs == 2
\* number of invitations that succeed in one run
MaxInvitations == 1
\* longest list of data source ids passed to the status check
MaxDataSourceIds == 3
\* longest list of calculated impacts the database holds
MaxImpacts == 3
\* bits of precision of a number in the model (an IEEE double has 53)
MantissaBits == 3
\* number of starter entry ids
NumEntries == 2
\* number of data source ids normative-server can hold
NumDataSources == 3
\* number of report ids
NumReports == 2
\* number of starter entry updates saved in one run
MaxUpdates == 1

UserIds == 1..NumUsers
OrgIds == 1..NumOrgs

(* --------------------------- JavaScript values ------------------------- *)
Undefined == "<undefined>"
Null == "<null>"
\* JavaScript truthiness of a string-or-absent value
Truthy(v) == v \notin {Undefined, Null, ""}

\* a JavaScript number, or the NaN that `undefined` converts to in a comparison
Num(n) == [nan |-> FALSE, n |-> n]
NaN == [nan |-> TRUE, n |-> 0]
\* JavaScript a >= b on numbers: false as soon as either side is NaN
JsGreaterOrEqual(a, b) == (~a.nan) /\ (~b.nan) /\ a.n >= b.n

(* ------------------------------- enums --------------------------------- *)
GUEST == "guest"
USER == "user"
ADMIN == "admin"
SUPER_ADMIN == "superAdmin"
OrganizationRole == {GUEST, USER, ADMIN, SUPER_ADMIN}

\* site-wide roles of a user document
SiteAdmin == "site:admin"
SiteUser == "site:user"
UserRoles == {SiteAdmin, SiteUser}

STARTER == "starter"
PREMIUM == "premium"
OrganizationAccountType == {STARTER, PREMIUM}

\* the table with the ranks of USER and ADMIN exchanged
ORGANIZATION_ROLE_ORDER_UserAboveAdmin ==
  (GUEST :> 0) @@ (USER :> 2) @@ (ADMIN :> 1) @@ (SUPER_ADMIN :> 3)

ORGANIZATION_ROLE_ORDER == (GUEST :> 0) @@ (USER :> 1) @@ (ADMIN :> 2) @@ (SUPER_ADMIN :> 3)

\* ORGANIZATION_ROLE_ORDER[role] as JavaScript evaluates it: undefined for a key
\* the table does not have
\* a lookup that ranks an unknown key below every role instead of giving undefined
RoleOrderLookup_UnknownIsLowest(role) ==
  IF role \in DOMAIN ORGANIZATION_ROLE_ORDER
    THEN Num(ORGANIZATION_ROLE_ORDER[role]) ELSE Num(0 - 1)

RoleOrderLookup(role) ==
  IF role \in DOMAIN ORGANIZATION_ROLE_ORDER THEN Num(ORGANIZATION_ROLE_ORDER[role]) ELSE NaN

\* an absent required role read as "nothing is required"
isRoleAtLeast_NothingRequired(role, wantRole) ==
  LET haveRoleIdx == IF Truthy(role) THEN RoleOrderLookup(role) ELSE Num(0 - 1)
      wantRoleIdx == IF Truthy(wantRole) THEN RoleOrderLookup(wantRole) ELSE Num(0 - 1)
  IN JsGreaterOrEqual(haveRoleIdx, wantRoleIdx)

\* an absent role being tested read as the lowest role
isRoleAtLeast_AbsentIsGuest(role, wantRole) ==
  LET haveRoleIdx == IF Truthy(role) THEN RoleOrderLookup(role) ELSE Num(0)
      wantRoleIdx == IF Truthy(wantRole) THEN RoleOrderLookup(wantRole) ELSE Num(99)
  IN JsGreaterOrEqual(haveRoleIdx, wantRoleIdx)

isRoleAtLeast(role, wantRole) ==
  LET haveRoleIdx == IF Truthy(role) THEN RoleOrderLookup(role) ELSE Num(0 - 1)
      wantRoleIdx == IF Truthy(wantRole) THEN RoleOrderLookup(wantRole) ELSE Num(99)
  IN JsGreaterOrEqual(haveRoleIdx, wantRoleIdx)

\* the arguments passed on in the same order
isRoleAtMost_SameOrder(role, atMost) == isRoleAtLeast(role, atMost)

\* "at most" computed as "not above": the negation of a strict comparison
isRoleAtMost_NotAbove(role, atMost) ==
  ~(isRoleAtLeast(role, atMost) /\ role # atMost)

isRoleAtMost(role, atMost) == isRoleAtLeast(atMost, role)

\* values a caller can pass where a role is expected
RoleInputs == OrganizationRole \cup {Undefined, Null, "", "specialRole"}
NonRoles == RoleInputs \ OrganizationRole

(* ------------------------------ exceptions ----------------------------- *)
Ok(value) == [kind |-> "ok", value |-> value, message |-> ""]
Throw(type, message) == [kind |-> type, value |-> <<>>, message |-> message]
NoResult == [kind |-> "none", value |-> <<>>, message |-> ""]

ForbiddenException == "ForbiddenException"
UnauthorizedException == "UnauthorizedException"
BadRequestException == "BadRequestException"
NotFoundException == "NotFoundException"
InternalServerErrorException == "InternalServerErrorException"
LookupError == "Error"

VARIABLES
  users,      \* user collection: user id -> user document, or NoUser
  orgs,       \* organizationaccounts collection: org id -> document, or NoOrg
  invitations, \* how many invitations have added a member so far
  call,       \* the last operation invoked and its arguments
  result      \* what that operation returned or threw

VARIABLES
  calculatedImpacts, \* transactionimpacts_unwind collection, in the order find returns it
  aggs        \* each caller of getImpactForDataSources: where it is and its locals

aggVars == <<calculatedImpacts, aggs>>

VARIABLES
  starterEntries,  \* starterentries collection: entry id -> document, or NoEntry
  normativeServer, \* the data sources and reports normative-server holds
  entryCall,       \* the last EntryService call: arguments, outcome, deletions requested
  updates          \* how many updateStarterEntry calls have been made

entryVars == <<starterEntries, normativeServer, entryCall, updates>>

VARIABLES
  children,        \* organization id -> the ids in the `children` array of its document
  modules,         \* organization id -> the `modules` array of its document
  accountCall      \* the last OrganizationAccountService call and the requests it sent

accountVars == <<children, modules, accountCall>>

VARIABLES
  request,          \* the last starter entry request: route, uploads, outcome
  nextDataSourceId, \* the id normative-server gives the next uploaded data source
  orgCountry        \* organization id -> the `country` of its document

submitVars == <<request, nextDataSourceId, orgCountry>>

VARIABLES
  submission,       \* the EntrySubmissionData handed to the parsers
  schemaRejects,    \* the rows the JSON schemas of the validators turn down
  parserResults     \* what parseFuelData and parseHeatingData gave back for it

parserVars == <<submission, schemaRejects, parserResults>>

vars == <<users, orgs, invitations, call, result, aggVars, entryVars, accountVars, submitVars, parserVars>>

NoUser == [exists |-> FALSE, email |-> "", role |-> ""]
NoOrg == [exists |-> FALSE, accountType |-> "", members |-> <<>>]

NoCall == [op |-> "none", user |-> 0, org |-> 0, role |-> "", wantRole |-> "",
           name |-> "", email |-> "", before |-> <<>>, statuses |-> <<>>, target |-> 0]

(* --------------------------- collection helpers ------------------------ *)
Min(S) == CHOOSE x \in S : \A y \in S : x <= y

ExistingUsers == {u \in UserIds : users[u].exists}
ExistingOrgs == {o \in OrgIds : orgs[o].exists}

\* what `members.find(...)?.role` sees when no entry matches
NoMember == [user |-> 0, role |-> Undefined]

\* Array.prototype.find over the members array with the predicate
\* (m) => m.user._id.equals(userId): the first matching entry, or undefined
FindMemberByUserId(members, userId) ==
  LET hits == {i \in DOMAIN members : members[i].user = userId}
  IN IF hits = {} THEN NoMember ELSE members[Min(hits)]

\* the `lowercase: true` setter of the User schema's email path
Lowercase(email) ==
  CASE email = "A" -> "a"
    [] email = "B" -> "b"
    [] email = "C" -> "c"
    [] email = "D" -> "d"
    [] OTHER -> email

\* userModel.findOne({ email }): the user id found, or 0 for null
FindUserByEmail(email) ==
  LET hits == {u \in ExistingUsers : users[u].email = Lowercase(email)}
  IN IF hits = {} THEN 0 ELSE Min(hits)

(* ------------------------------ OrgValidator --------------------------- *)
\* a type check that lets every account type through
checkType_AnyType(org, requiredAccountType) == Ok(<<>>)

checkType(org, requiredAccountType) ==
  IF org.accountType # requiredAccountType
    THEN Throw(ForbiddenException,
               "Organization Account must be of type " \o requiredAccountType \o ".")
    ELSE Ok(<<>>)

\* a member check that asks for membership only, whatever the role
checkMember_AnyRole(org, userId, minRole) ==
  LET membership == FindMemberByUserId(org.members, userId)
  IN IF membership = NoMember
       THEN Throw(ForbiddenException,
                  "User must be at least " \o minRole \o " in the organization.")
       ELSE Ok(<<>>)

checkMember(org, userId, minRole) ==
  LET membership == FindMemberByUserId(org.members, userId)
  IN IF ~isRoleAtLeast(membership.role, minRole)
       THEN Throw(ForbiddenException,
                  "User must be at least " \o minRole \o " in the organization.")
       ELSE Ok(<<>>)

(* ------------------------------ AuthzService --------------------------- *)
\* reqUser = 0 models a request without `user`
checkSiteRoleAdminOrOrgRole(reqUser, org, orgRoleRequired) ==
  IF reqUser = 0
    THEN Throw(UnauthorizedException, "User not authenticated")
    ELSE IF users[reqUser].role = SiteAdmin
      THEN Ok(<<>>)
      ELSE checkMember(org, reqUser, orgRoleRequired)

(* --------------------------- StarterAuthzService ----------------------- *)
checkUserIsAdminOnStarterOrg(reqUser, orgId) ==
  IF reqUser = 0
    THEN Throw(UnauthorizedException, "User not authenticated")
    ELSE LET org == orgs[orgId] IN
      IF ~org.exists
        THEN Throw(ForbiddenException, "Organization " \o ToString(orgId) \o " not allowed.")
        ELSE LET typeCheck == checkType(org, STARTER) IN
          IF typeCheck.kind # "ok"
            THEN typeCheck
            ELSE LET memberCheck == checkMember(org, reqUser, ADMIN) IN
              IF memberCheck.kind # "ok"
                THEN memberCheck
                ELSE Ok(<<reqUser, orgId>>)

(* ------------------------ CalculatedImpactService ---------------------- *)
\* only 'succeeded' counted as completed
IsCompletedStatus_SucceededOnly(status) == status = "succeeded"

\* dataSource.status === 'succeeded' || dataSource.status === 'failed'
IsCompletedStatus(status) == status = "succeeded" \/ status = "failed"

\* a lookup that failed taken for a data source that is not completed yet
isCalculationCompleteForDataSources_FailedLookupIsIncomplete(lookups) ==
  Ok(\A i \in DOMAIN lookups : lookups[i] # LookupError /\ IsCompletedStatus(lookups[i]))

\* `lookups` is what getDataSource gives for each id, in the order of the ids:
\* the status of the data source found, or LookupError for a rejected request.
\* Promise.all rejects as soon as one lookup rejects.
isCalculationCompleteForDataSources(lookups) ==
  IF \E i \in DOMAIN lookups : lookups[i] = LookupError
    THEN Throw(LookupError, "getDataSource failed")
    ELSE Ok(\A i \in DOMAIN lookups : IsCompletedStatus(lookups[i]))

(* --------------------------- JavaScript numbers ------------------------ *)
\* Emission values are JavaScript numbers: binary floating point, every sum
\* rounded to the nearest representable value, ties to the even mantissa. The
\* model keeps MantissaBits bits and non-negative whole values.
RECURSIVE Pow2(_)
Pow2(k) == IF k = 0 THEN 1 ELSE 2 * Pow2(k - 1)

\* the binary exponent of the last mantissa bit of n
Exponent(n) ==
  CHOOSE e \in 0..(2 * MantissaBits) :
    /\ n < Pow2(MantissaBits + e)
    /\ (e = 0 \/ n >= Pow2(MantissaBits + e - 1))

\* nearest representable number, ties to even
Round(n) ==
  LET e == Exponent(n)
      ulp == Pow2(e)
      q == n \div ulp
      r == n % ulp
  IN IF r * 2 > ulp \/ (r * 2 = ulp /\ q % 2 = 1)
       THEN (q + 1) * ulp
       ELSE q * ulp

\* a + b on numbers
JsAdd(a, b) == Round(a + b)

\* the first number that a sum can fail to reach: adding 1 to it gives it back
Big == Pow2(MantissaBits)

(* -------------------- CalculatedImpactService: aggregation ------------- *)
CO2KGS == "co2 kg"

\* v ?? d
NullishOr(v, d) == IF v \in {Undefined, Null} THEN d ELSE v

\* i.impacts?.value ?? 0
ImpactValue(i) == IF i.impacts.defined THEN i.impacts.value ELSE 0
\* x.activity?.ghgScope ?? 'unknown'
ScopeKey(x) == IF x.activity.defined THEN NullishOr(x.activity.ghgScope, "unknown") ELSE "unknown"
\* x.activity?.category ?? 'unknown'
CategoryKey(x) == IF x.activity.defined THEN NullishOr(x.activity.category, "unknown") ELSE "unknown"

\* every impact counted as 1 whatever its value
sumEmissions_CountRecords(impacts) == Len(impacts)

\* impacts.map((i) => i.impacts?.value ?? 0).reduce((a, b) => a + b, 0)
RECURSIVE sumEmissions(_)
sumEmissions(impacts) ==
  IF impacts = <<>>
    THEN 0
    ELSE JsAdd(sumEmissions(SubSeq(impacts, 1, Len(impacts) - 1)),
               ImpactValue(impacts[Len(impacts)]))

\* Object.entries(_.groupBy(list, key)): one entry per key, in the order in which
\* the keys first occur, each with the elements of that key in list order
\* grouping that only joins neighbours: a key that comes back later in the list
\* starts a second entry
RECURSIVE GroupPairs_AdjacentRuns(_)
GroupPairs_AdjacentRuns(pairs) ==
  IF pairs = <<>>
    THEN <<>>
    ELSE LET k == pairs[1].key
             run == CHOOSE m \in 1..Len(pairs) :
                      /\ \A n \in 1..m : pairs[n].key = k
                      /\ (m = Len(pairs) \/ pairs[m + 1].key # k)
         IN <<[key |-> k, group |-> [n \in 1..run |-> pairs[n].value]]>>
              \o GroupPairs_AdjacentRuns(SubSeq(pairs, run + 1, Len(pairs)))

RECURSIVE GroupPairs(_)
GroupPairs(pairs) ==
  IF pairs = <<>>
    THEN <<>>
    ELSE LET k == pairs[1].key
             same(x) == x.key = k
             other(x) == x.key # k
             hits == SelectSeq(pairs, same)
         IN <<[key |-> k, group |-> [n \in DOMAIN hits |-> hits[n].value]]>>
              \o GroupPairs(SelectSeq(pairs, other))

\* Object.entries(_.groupBy(list, key)), keys[n] being the key of list[n]
GroupByEntries(list, keys) ==
  GroupPairs([n \in DOMAIN list |-> [key |-> keys[n], value |-> list[n]]])

\* every category given the value of its first impact only
getEmissionsByCategory_FirstImpactOnly(impacts) ==
  LET impactsByCategory == GroupByEntries(impacts, [n \in DOMAIN impacts |-> CategoryKey(impacts[n])])
  IN [n \in DOMAIN impactsByCategory |->
        [category |-> impactsByCategory[n].key,
         emission |-> [unit |-> CO2KGS,
                       value |-> ImpactValue(impactsByCategory[n].group[1])]]]

getEmissionsByCategory(impacts) ==
  LET impactsByCategory == GroupByEntries(impacts, [n \in DOMAIN impacts |-> CategoryKey(impacts[n])])
  IN [n \in DOMAIN impactsByCategory |->
        [category |-> impactsByCategory[n].key,
         emission |-> [unit |-> CO2KGS,
                       value |-> sumEmissions(impactsByCategory[n].group)]]]

\* the reduction of the scope values started from 1 instead of 0
RECURSIVE SumScopeValues_StartsAtOne(_)
SumScopeValues_StartsAtOne(emissionsByScope) ==
  IF emissionsByScope = <<>>
    THEN 1
    ELSE JsAdd(SumScopeValues_StartsAtOne(SubSeq(emissionsByScope, 1, Len(emissionsByScope) - 1)),
               emissionsByScope[Len(emissionsByScope)].emission.value)

\* emissionsByScope.map((e) => e.emission.value).reduce((a, b) => a + b, 0)
RECURSIVE SumScopeValues(_)
SumScopeValues(emissionsByScope) ==
  IF emissionsByScope = <<>>
    THEN 0
    ELSE JsAdd(SumScopeValues(SubSeq(emissionsByScope, 1, Len(emissionsByScope) - 1)),
               emissionsByScope[Len(emissionsByScope)].emission.value)

\* records without a scope left out of the result instead of counted as 'unknown'
aggregateImpacts_DropUnknownScope(impacts) ==
  LET known(x) == ScopeKey(x) # "unknown"
      kept == SelectSeq(impacts, known)
      calculatedImpactsByScope ==
        GroupByEntries(kept, [n \in DOMAIN kept |-> ScopeKey(kept[n])])
      emissionsByScope ==
        [n \in DOMAIN calculatedImpactsByScope |->
           [scope |-> calculatedImpactsByScope[n].key,
            emission |-> [unit |-> CO2KGS,
                          value |-> sumEmissions(calculatedImpactsByScope[n].group)],
            categoryBreakdown |-> getEmissionsByCategory(calculatedImpactsByScope[n].group)]]
  IN [totalEmissions |-> [value |-> SumScopeValues(emissionsByScope), unit |-> CO2KGS],
      emissionsByScope |-> emissionsByScope]

aggregateImpacts(impacts) ==
  LET calculatedImpactsByScope == GroupByEntries(impacts, [n \in DOMAIN impacts |-> ScopeKey(impacts[n])])
      emissionsByScope ==
        [n \in DOMAIN calculatedImpactsByScope |->
           [scope |-> calculatedImpactsByScope[n].key,
            emission |-> [unit |-> CO2KGS,
                          value |-> sumEmissions(calculatedImpactsByScope[n].group)],
            categoryBreakdown |-> getEmissionsByCategory(calculatedImpactsByScope[n].group)]]
  IN [totalEmissions |-> [value |-> SumScopeValues(emissionsByScope), unit |-> CO2KGS],
      emissionsByScope |-> emissionsByScope]

\* calculatedImpactModel.find({'transaction.organization': organizationAccountId,
\*                             'transaction.source': {$in: dataSources}})
find(collection, organizationAccountId, dataSources) ==
  LET matches(x) == /\ x.transaction.organization = organizationAccountId
                    /\ x.transaction.source \in dataSources
  IN SelectSeq(collection, matches)

(* ------------------------------ EntryService --------------------------- *)
EntryIds == 1..NumEntries
DataSourceIds == 1..NumDataSources
ReportIds == 1..NumReports

\* reportId 0 stands for an entry without a report (reportId undefined)
NoEntry ==
  [exists |-> FALSE, organizationId |-> 0, createdBy |-> 0, lastUpdatedBy |-> 0,
   coveredPeriod |-> [startDate |-> "", endDate |-> ""],
   reportId |-> 0, dataSources |-> <<>>]

\* entryData.timePeriod absent
NoTimePeriod == [defined |-> FALSE, startDate |-> "", endDate |-> ""]

\* normativeServerService.getDataSources(authToken, organizationAccountId): the ids
\* of the data sources the server holds for the organization, in id order
RECURSIVE IdsInOrder(_)
IdsInOrder(S) == IF S = {} THEN <<>> ELSE <<Min(S)>> \o IdsInOrder(S \ {Min(S)})
getDataSources(server, organizationAccountId) ==
  IdsInOrder({d \in DataSourceIds : server.dataSources[d] = organizationAccountId})

\* dataRefs.dataSources?.map((x) => new ObjectId(x)) ?? []
NewDataSources(dataRefs) == IF dataRefs.dataSources.defined THEN dataRefs.dataSources.ids ELSE <<>>

updateAndSaveStarterEntry(starterEntry, userId, entryData, dataRefs) ==
  LET timePeriod == entryData.timePeriod IN
  IF ~timePeriod.defined \/ ~Truthy(timePeriod.endDate) \/ ~Truthy(timePeriod.startDate)
    THEN Throw(BadRequestException, "Updates to an entry must always specify a time period.")
    ELSE Ok([starterEntry EXCEPT
               !.lastUpdatedBy = userId,
               !.coveredPeriod = [startDate |-> timePeriod.startDate,
                                  endDate |-> timePeriod.endDate],
               !.reportId = dataRefs.reportId,
               !.dataSources = NewDataSources(dataRefs)])

DeleteDataSource(id) == [kind |-> "dataSource", id |-> id]
DeleteReport(id) == [kind |-> "report", id |-> id]

\* a clean-up that asks for the deletion of every old data source, stored or not
cleanupOldStarterEntry_NoExistenceCheck(oldStarterEntry, allDataSources) ==
  LET dataSources == oldStarterEntry.dataSources
      reportId == oldStarterEntry.reportId
  IN [n \in DOMAIN dataSources |-> DeleteDataSource(dataSources[n])]
       \o (IF reportId # 0 THEN <<DeleteReport(reportId)>> ELSE <<>>)

\* the deletions cleanupOldStarterEntry requests, in the order of the requests:
\* the old data sources found among allDataSources, then the old report
cleanupOldStarterEntry(oldStarterEntry, allDataSources) ==
  LET dataSources == oldStarterEntry.dataSources
      reportId == oldStarterEntry.reportId
      found(dataSourceId) == \E n \in DOMAIN allDataSources : allDataSources[n] = dataSourceId
      deleteDataSources == SelectSeq(dataSources, found)
  IN [n \in DOMAIN deleteDataSources |-> DeleteDataSource(deleteDataSources[n])]
       \o (IF reportId # 0 THEN <<DeleteReport(reportId)>> ELSE <<>>)

\* an update that does not compare the organization of the request with the entry's
updateStarterEntry_NoOrganizationCheck(entries, server, lookupFails, userId, organizationAccountId, entryId, entryData, dataRefs) ==
  LET starterEntry == entries[entryId]
      unchanged(res) == [result |-> res, entries |-> entries, deletions |-> <<>>]
  IN
  IF ~starterEntry.exists
    THEN unchanged(Throw(NotFoundException, "Attempted to update an entry that doesn't exist."))
  ELSE LET saved == updateAndSaveStarterEntry(starterEntry, userId, entryData, dataRefs) IN
    IF saved.kind # "ok"
      THEN unchanged(saved)
    ELSE IF lookupFails
      THEN [result |-> Throw(LookupError, "getDataSources failed"),
            entries |-> [entries EXCEPT ![entryId] = saved.value],
            deletions |-> <<>>]
    ELSE [result |-> saved,
          entries |-> [entries EXCEPT ![entryId] = saved.value],
          deletions |-> cleanupOldStarterEntry(
                          starterEntry, getDataSources(server, starterEntry.organizationId))]

\* updateStarterEntry: the promise's outcome, the collection as the call leaves it
\* and the deletions requested from normative-server. `lookupFails` says whether
\* the getDataSources request of the clean-up is rejected; that request is made
\* after the entry is saved and outside the try block, so its failure rejects the
\* update. Failing deletions are caught inside cleanupOldStarterEntry.
updateStarterEntry(entries, server, lookupFails, userId, organizationAccountId, entryId, entryData, dataRefs) ==
  LET starterEntry == entries[entryId]
      unchanged(res) == [result |-> res, entries |-> entries, deletions |-> <<>>]
  IN
  IF ~starterEntry.exists
    THEN unchanged(Throw(NotFoundException, "Attempted to update an entry that doesn't exist."))
  ELSE IF starterEntry.organizationId # organizationAccountId
    THEN unchanged(Throw(BadRequestException,
                         "Cannot change the organization associated with a starter entry."))
  ELSE LET saved == updateAndSaveStarterEntry(starterEntry, userId, entryData, dataRefs) IN
    IF saved.kind # "ok"
      THEN unchanged(saved)
    ELSE IF lookupFails
      THEN [result |-> Throw(LookupError, "getDataSources failed"),
            entries |-> [entries EXCEPT ![entryId] = saved.value],
            deletions |-> <<>>]
    ELSE [result |-> saved,
          entries |-> [entries EXCEPT ![entryId] = saved.value],
          deletions |-> cleanupOldStarterEntry(
                          starterEntry, getDataSources(server, starterEntry.organizationId))]

\* the _id a new entry document gets: an id the collection does not hold yet
FreshEntryId(entries) ==
  IF \A e \in EntryIds : entries[e].exists THEN 0
  ELSE Min({e \in EntryIds : ~entries[e].exists})

\* createStarterEntry: the document saved under a new id
createStarterEntry(userId, organizationAccountId, entryData, dataRefs) ==
  [exists |-> TRUE, organizationId |-> organizationAccountId,
   createdBy |-> userId, lastUpdatedBy |-> userId,
   coveredPeriod |-> [startDate |-> entryData.timePeriod.startDate,
                      endDate |-> entryData.timePeriod.endDate],
   reportId |-> dataRefs.reportId,
   dataSources |-> dataRefs.dataSources.ids]

\* normative-server after the deletions that succeeded
ServerAfter(server, deletions, failed) ==
  LET done == {deletions[n] : n \in DOMAIN deletions} \ failed IN
  [dataSources |-> [d \in DataSourceIds |->
                      IF DeleteDataSource(d) \in done THEN 0 ELSE server.dataSources[d]],
   reports |-> {r \in server.reports : DeleteReport(r) \notin done}]

(* ------------------------------- UserService --------------------------- *)
\* how a template literal prints a role that may be undefined or null
JsString(v) == IF v = Undefined THEN "undefined" ELSE IF v = Null THEN "null" ELSE v

\* the _id a new user document gets: an id the collection does not hold yet
FreshUserId == IF UserIds = ExistingUsers THEN 0 ELSE Min(UserIds \ ExistingUsers)

\* the privilege-escalation check applied to site admins as well
IsPrivilegeEscalation_NoSiteAdminBypass(role, organization, invitedByUser) ==
  ~isRoleAtMost(role, FindMemberByUserId(organization.members, invitedByUser).role)

\* the check for privilege escalation: the requester is no site admin and asks
\* for a role above the requester's own role in the organization
IsPrivilegeEscalation(role, organization, invitedByUser) ==
  /\ users[invitedByUser].role # SiteAdmin
  /\ ~isRoleAtMost(role, FindMemberByUserId(organization.members, invitedByUser).role)

\* inviteUserToOrganization: the promise's outcome together with the members array
\* of the organization and the user collection as the call leaves them
inviteUserToOrganization(name, email, role, orgId, invitedByUser) ==
  LET organization == orgs[orgId]
      untouched(res) == [result |-> res, members |-> organization.members, users |-> users]
      inviterRoleInOrg == FindMemberByUserId(organization.members, invitedByUser).role
      isMember == \E i \in DOMAIN organization.members :
                     users[organization.members[i].user].email = email
      localUser == FindUserByEmail(email)
      invitedUser == IF localUser # 0 THEN localUser ELSE FreshUserId
      usersAfter == IF localUser # 0 THEN users
                    ELSE [users EXCEPT ![invitedUser] =
                            [exists |-> TRUE, email |-> Lowercase(email), role |-> SiteUser]]
      membersAfter == Append(organization.members, [user |-> invitedUser, role |-> role])
      addedMember == FindMemberByUserId(membersAfter, invitedUser)
  IN
  IF ~Truthy(name) \/ ~Truthy(email) \/ ~Truthy(role)
    THEN untouched(Throw(BadRequestException,
                         "Properties name, email and role must be specified"))
  ELSE IF IsPrivilegeEscalation(role, organization, invitedByUser)
    THEN untouched(Throw(ForbiddenException,
           "A user can only invite another use to the organization with the same or lower role. The requester had role "
             \o JsString(inviterRoleInOrg) \o " and invited the new user to have role "
             \o role \o "."))
  ELSE IF isMember
    THEN untouched(Throw(BadRequestException,
                         "User with specified email is already organization member"))
  ELSE [result |-> Ok([role |-> addedMember.role, user |-> invitedUser]),
        members |-> membersAfter,
        users |-> usersAfter]

(* ------------------ OrganizationAccountService: members ---------------- *)
\* the roles updateUsersOrganizationRole accepts
AllowedRoles == {ADMIN, GUEST, USER}

\* an update that takes every organization role, SUPER_ADMIN included
updateUsersOrganizationRole_AnyRole(organization, userId, role) ==
  LET members == organization.members
      untouched(res) == [result |-> res, members |-> members]
      hits == {i \in DOMAIN members : members[i].user = userId}
  IN
  IF ~Truthy(role)
    THEN untouched(Throw(BadRequestException, "Role must be provided"))
  ELSE IF role \notin OrganizationRole
    THEN untouched(Throw(ForbiddenException, "Role not allowed: " \o role))
  ELSE IF hits = {}
    THEN untouched(Throw(NotFoundException,
                         "User " \o ToString(userId) \o " is not a member in organization"))
  ELSE [result |-> Ok(<<>>), members |-> [members EXCEPT ![Min(hits)].role = role]]

\* updateUsersOrganizationRole: the outcome and the members array it leaves. The
\* entry changed is the first one listing the user (_.find, then _.indexOf).
\* organization.name, part of the NotFoundException message, is not modelled.
updateUsersOrganizationRole(organization, userId, role) ==
  LET members == organization.members
      untouched(res) == [result |-> res, members |-> members]
      hits == {i \in DOMAIN members : members[i].user = userId}
  IN
  IF ~Truthy(role)
    THEN untouched(Throw(BadRequestException, "Role must be provided"))
  ELSE IF role \notin AllowedRoles
    THEN untouched(Throw(ForbiddenException, "Role not allowed: " \o role))
  ELSE IF hits = {}
    THEN untouched(Throw(NotFoundException,
                         "User " \o ToString(userId) \o " is not a member in organization"))
  ELSE [result |-> Ok(<<>>), members |-> [members EXCEPT ![Min(hits)].role = role]]

\* removeUserFromOrganization: _.remove drops every entry listing the user
removeUserFromOrganization(organization, userId) ==
  LET keep(m) == m.user # userId
  IN [result |-> Ok(<<>>), members |-> SelectSeq(organization.members, keep)]

(* ------------------------- the member controllers ---------------------- *)
\* authzService.loadOrganizationWithMembers
loadOrganizationWithMembers(orgId) ==
  IF ~orgs[orgId].exists
    THEN Throw(NotFoundException, "Organization not found")
    ELSE Ok(<<>>)

\* the first two statements of invite, updateMember and deleteMember: load the
\* organization, then require site role admin or organization role ADMIN
MemberGuard(reqUser, orgId) ==
  LET loaded == loadOrganizationWithMembers(orgId)
  IN IF loaded.kind # "ok"
       THEN loaded
       ELSE checkSiteRoleAdminOrOrgRole(reqUser, orgs[orgId], ADMIN)

\* UserController.invite
invite(reqUser, orgId, newUserData) ==
  LET guard == MemberGuard(reqUser, orgId)
  IN IF guard.kind # "ok"
       THEN [result |-> guard, members |-> orgs[orgId].members, users |-> users]
       ELSE inviteUserToOrganization(newUserData.name, newUserData.email, newUserData.role,
                                     orgId, reqUser)

\* OrganizationAccountController.updateMember
updateMember(reqUser, orgId, userId, role) ==
  LET guard == MemberGuard(reqUser, orgId)
  IN IF guard.kind # "ok"
       THEN [result |-> guard, members |-> orgs[orgId].members]
       ELSE updateUsersOrganizationRole(orgs[orgId], userId, role)

\* OrganizationAccountController.deleteMember
deleteMember(reqUser, orgId, userId) ==
  LET guard == MemberGuard(reqUser, orgId)
  IN IF guard.kind # "ok"
       THEN [result |-> guard, members |-> orgs[orgId].members]
       ELSE removeUserFromOrganization(orgs[orgId], userId)

(* ------------------ OrganizationAccountService: accounts --------------- *)
\* module names stand for the members of the OrganizationModules enum
Module(name, submodules) == [name |-> name, submodules |-> submodules]

defaultStarterModlules ==
  <<Module("STARTER", <<>>),
    Module("DATA_SOURCES", <<"EDIT SOURCE">>),
    Module("IMPACT_MODEL", <<"v2-normid">>),
    Module("REPORTING", <<>>)>>

defaultModules ==
  <<Module("DATA_SOURCES", <<"EDIT SOURCE">>),
    Module("SUPPLIERS", <<>>),
    Module("TRANSACTIONS", <<>>),
    Module("ANALYTICS", <<"POWER BI">>),
    Module("IMPACT_MODEL", <<"v1.6">>)>>

\* addDefaultModules: every default module whose name the array lacks is pushed
RECURSIVE AddModules(_, _)
AddModules(mods, defaults) ==
  IF defaults = <<>> THEN mods
  ELSE LET defaultModule == Head(defaults)
           present == \E n \in DOMAIN mods : mods[n].name = defaultModule.name
       IN AddModules(IF present THEN mods ELSE Append(mods, defaultModule), Tail(defaults))
addDefaultModules(mods) == AddModules(mods, defaultModules)

\* an array field of the data: given, or absent
Given(array) == [defined |-> TRUE, value |-> array]
Absent == [defined |-> FALSE, value |-> <<>>]

\* request data without a body
NoBody ==
  [nil |-> TRUE, name |-> Undefined, vat |-> Undefined, accountType |-> Undefined,
   modules |-> Absent, members |-> Absent, children |-> Absent]

\* a name or account type that is Undefined is a field the data does not have
AccountData(name, accountType, mods, members, childIds) ==
  [nil |-> FALSE, name |-> name, vat |-> "BR11235813", accountType |-> accountType,
   modules |-> mods, members |-> members, children |-> childIds]

\* OrganizationAccountParser.parse: name and vat are required, every field but
\* name, vat, sector, country and currency is dropped
parse(orgAccountCreationRequest) ==
  IF ~Truthy(orgAccountCreationRequest.name)
    THEN Throw(BadRequestException, "The organization name cannot be null or empty.")
  ELSE IF ~Truthy(orgAccountCreationRequest.vat)
    THEN Throw(BadRequestException, "The organization VAT cannot be null or empty.")
  ELSE Ok(AccountData(orgAccountCreationRequest.name, Undefined, Absent, Absent, Absent))

\* the id a new organization document gets, 0 when no id is left
FreshOrgId == IF OrgIds = ExistingOrgs THEN 0 ELSE Min(OrgIds \ ExistingOrgs)

ValidationError == "ValidationError"

\* new this.organizationAccountModel(data).save(): name and vat are required,
\* accountType must be a member of the enum; arrays default to []
SaveNewAccount(data) ==
  IF ~Truthy(data.name) \/ ~Truthy(data.vat)
       \/ data.accountType \notin OrganizationAccountType \cup {Undefined}
    THEN [result |-> Throw(ValidationError, "OrganizationAccount validation failed"),
          id |-> 0, org |-> NoOrg, modules |-> <<>>, children |-> <<>>]
    ELSE [result |-> Ok(<<>>),
          id |-> FreshOrgId,
          org |-> [exists |-> TRUE, accountType |-> data.accountType,
                   members |-> data.members.value],
          modules |-> data.modules.value,
          children |-> data.children.value]

NothingSaved(res) ==
  [result |-> res, id |-> 0, org |-> NoOrg, modules |-> <<>>, children |-> <<>>]

\* a creation that keeps the account type, modules and members of the data
createStarterOrganizationAccount_KeepsSubmitted(organizationAccountData, adminUserId) ==
  IF organizationAccountData.nil
    THEN NothingSaved(Throw(BadRequestException, "Body not found"))
    ELSE SaveNewAccount(
           [organizationAccountData EXCEPT
              !.accountType = NullishOr(@, STARTER),
              !.modules = IF @.defined THEN @ ELSE Given(defaultStarterModlules),
              !.members = IF @.defined THEN @
                          ELSE Given(<<[user |-> adminUserId, role |-> ADMIN]>>)])

createStarterOrganizationAccount(organizationAccountData, adminUserId) ==
  IF organizationAccountData.nil
    THEN NothingSaved(Throw(BadRequestException, "Body not found"))
    ELSE SaveNewAccount(
           [organizationAccountData EXCEPT
              !.accountType = STARTER,
              !.modules = Given(defaultStarterModlules),
              !.members = Given(<<[user |-> adminUserId, role |-> ADMIN]>>)])

createOrgAccount(newOrgAccount) ==
  IF newOrgAccount.nil
    THEN NothingSaved(Throw(BadRequestException, "Body not found"))
    ELSE SaveNewAccount(
           [newOrgAccount EXCEPT
              !.modules = Given(addDefaultModules(@.value))])

\* OrganizationAccountController.createOrganizationAccount
createOrganizationAccount(userId, submittedData) ==
  LET parsed == parse(submittedData) IN
  IF submittedData.accountType = STARTER
    THEN IF parsed.kind # "ok" THEN NothingSaved(parsed)
         ELSE createStarterOrganizationAccount(parsed.value, userId)
  ELSE IF users[userId].role # SiteAdmin
    THEN NothingSaved(Throw(ForbiddenException,
                            "Only site admins can create a premium account."))
  ELSE IF parsed.kind # "ok" THEN NothingSaved(parsed)
  ELSE createOrgAccount(parsed.value)

\* the requests deleteOrgAccount sends, in the order it sends them
DeleteOrgDataSources(organizationId) == [kind |-> "deleteOrgDataSources", org |-> organizationId]
DeleteOrgReports(organizationId) == [kind |-> "deleteOrgReports", org |-> organizationId]
DeleteStarterEntries(organizationId) == [kind |-> "deleteStarterEntries", org |-> organizationId]
AssetRequests(organizationId) ==
  <<DeleteOrgDataSources(organizationId), DeleteOrgReports(organizationId),
    DeleteStarterEntries(organizationId)>>

\* { $pull: { children: organizationId } }
Pull(childIds, organizationId) ==
  LET other(c) == c # organizationId IN SelectSeq(childIds, other)

\* a deletion that leaves the children arrays of the other organizations alone
deleteOrgAccount_KeepsChildEntries(organizationId, rejected) ==
  [result |-> IF ~orgs[organizationId].exists
                THEN Throw(NotFoundException, "Organization not found")
                ELSE Ok(<<>>),
   requests |-> IF ~orgs[organizationId].exists THEN <<>> ELSE AssetRequests(organizationId),
   orgs |-> [orgs EXCEPT ![organizationId] = NoOrg],
   children |-> [children EXCEPT ![organizationId] = <<>>],
   modules |-> [modules EXCEPT ![organizationId] = <<>>]]

\* deleteOrgAccount: the outcome, the requests sent and the collection as the
\* call leaves it. `rejected` is the number of the asset request that is
\* rejected (0: none); the requests are awaited one after the other, so the
\* requests after a rejected one are not sent and the document stays.
deleteOrgAccount(organizationId, rejected) ==
  LET untouched(res, sent) ==
        [result |-> res, requests |-> sent, orgs |-> orgs, children |-> children,
         modules |-> modules]
  IN
  IF ~orgs[organizationId].exists
    THEN untouched(Throw(NotFoundException, "Organization not found"), <<>>)
  ELSE IF rejected # 0
    THEN untouched(Throw(LookupError, "request failed"),
                   SubSeq(AssetRequests(organizationId), 1, rejected))
  ELSE [result |-> Ok(<<>>),
        requests |-> AssetRequests(organizationId),
        orgs |-> [orgs EXCEPT ![organizationId] = NoOrg],
        children |-> [o \in OrgIds |->
                        IF o = organizationId THEN <<>>
                        ELSE Pull(children[o], organizationId)],
        modules |-> [modules EXCEPT ![organizationId] = <<>>]]

(* ----------------------- the starter data parsers ---------------------- *)
\* HeatingType of starter.model.ts
DISTRICT == "DISTRICT"
NATURAL_GAS == "NATURAL GAS"
ELECTRICITY == "ELECTRICITY"
NONE == "NONE"
UNKNOWN == "UNKNOWN"
HeatingType == {DISTRICT, NATURAL_GAS, ELECTRICITY, NONE, UNKNOWN}

\* an optional ValueWithUnit: the object given, or the field left out
ValueWithUnit(value, unit) == [given |-> TRUE, value |-> value, unit |-> unit]
NoValue == [given |-> FALSE, value |-> 0, unit |-> ""]

\* one data source row; a key the parser did not set is NoValue or ""
Row(costCenter, fuelType, activityName, cost, energy, volume, area) ==
  [costCenter |-> costCenter, fuelType |-> fuelType, activityName |-> activityName,
   cost |-> cost, energy |-> energy, volume |-> volume, area |-> area]

\* what a parser gives back: rows, null, or the DataTransformError of validate
DataTransformError == "DataTransformError"
Rows(rows) == [kind |-> "rows", rows |-> rows, schemaName |-> ""]
NullRows == [kind |-> "null", rows |-> <<>>, schemaName |-> ""]
TransformError(schemaName) == [kind |-> DataTransformError, rows |-> <<>>, schemaName |-> schemaName]

FUEL_SCHEMA_NAME == "FUEL"
HEATING_SCHEMA_NAME == "HEATING"
PETROL_FUEL_DEFAULTS == "PETROL"
NATURAL_GAS_FUEL_DEFAULTS == "NATURAL GAS"

\* DataValidator.validate: the compiled schema accepts the row or the call
\* throws; `rejects` is the set of rows the schemas turn down
validate(rejects, parsedData) == parsedData \notin rejects

parseVehiclesUsage(starterData) ==
  Row("vehicles", PETROL_FUEL_DEFAULTS, "", starterData.fuel.spend, NoValue,
      starterData.fuel.volume, NoValue)

parseMachineryUsage(starterData) ==
  Row("machinery", PETROL_FUEL_DEFAULTS, "", starterData.machinery.spend, NoValue,
      starterData.machinery.volume, NoValue)

NaturalGasRecord(starterData) ==
  Row("Heating by NATURAL_GAS", NATURAL_GAS_FUEL_DEFAULTS, "", starterData.heating.spend,
      starterData.heating.energy, NoValue, NoValue)

\* null, the record (as a one-row list), or the validator's error
parseNaturalGasHeatingUsage(rejects, starterData) ==
  LET heating == starterData.heating
  IN IF heating.type # NATURAL_GAS THEN NullRows
     ELSE IF (~heating.spend.given) /\ (~heating.energy.given) THEN NullRows
     ELSE IF ~validate(rejects, NaturalGasRecord(starterData))
       THEN TransformError(FUEL_SCHEMA_NAME)
     ELSE Rows(<<NaturalGasRecord(starterData)>>)

parseFuelData(rejects, starterData) ==
  LET hasVehicles == starterData.fuel.spend.given \/ starterData.fuel.volume.given
      hasMachinery == starterData.machinery.spend.given \/ starterData.machinery.volume.given
      naturalGasUsage == parseNaturalGasHeatingUsage(rejects, starterData)
      fuelData ==
        (IF hasVehicles THEN <<parseVehiclesUsage(starterData)>> ELSE <<>>)
        \o (IF hasMachinery THEN <<parseMachineryUsage(starterData)>> ELSE <<>>)
        \o naturalGasUsage.rows
  IN IF hasVehicles /\ ~validate(rejects, parseVehiclesUsage(starterData))
       THEN TransformError(FUEL_SCHEMA_NAME)
     ELSE IF hasMachinery /\ ~validate(rejects, parseMachineryUsage(starterData))
       THEN TransformError(FUEL_SCHEMA_NAME)
     ELSE IF naturalGasUsage.kind = DataTransformError THEN naturalGasUsage
     ELSE IF Len(fuelData) > 0 THEN Rows(fuelData)
     ELSE NullRows

ACTIVITY_NAME_FROM_HEATING_TYPE(type) ==
  IF type = DISTRICT THEN "district" ELSE IF type = NATURAL_GAS THEN "onsite" ELSE ""

HeatingDataSourceRow(starterData) ==
  LET heating == starterData.heating
  IN Row("", "", IF Truthy(heating.type) THEN ACTIVITY_NAME_FROM_HEATING_TYPE(heating.type) ELSE "",
         heating.spend, heating.energy, NoValue, starterData.facilities.size)

\* a heating parser without the hand-over of NATURAL_GAS usage to the fuel parser
parseHeatingData_NoHandOver(rejects, starterData) ==
  LET facilities == starterData.facilities
      heating == starterData.heating
  IN IF (~heating.spend.given) /\ (~heating.energy.given) /\ (~facilities.size.given)
       THEN NullRows
     ELSE IF heating.type = ELECTRICITY THEN NullRows
     ELSE IF heating.type = NONE THEN NullRows
     ELSE IF ~validate(rejects, HeatingDataSourceRow(starterData))
       THEN TransformError(HEATING_SCHEMA_NAME)
     ELSE Rows(<<HeatingDataSourceRow(starterData)>>)

parseHeatingData(rejects, starterData) ==
  LET facilities == starterData.facilities
      heating == starterData.heating
  IN IF (~heating.spend.given) /\ (~heating.energy.given) /\ (~facilities.size.given)
       THEN NullRows
     ELSE IF heating.type = ELECTRICITY THEN NullRows
     ELSE IF heating.type = NATURAL_GAS /\ (heating.energy.given \/ heating.spend.given)
       THEN NullRows
     ELSE IF heating.type = NONE THEN NullRows
     ELSE IF ~validate(rejects, HeatingDataSourceRow(starterData))
       THEN TransformError(HEATING_SCHEMA_NAME)
     ELSE Rows(<<HeatingDataSourceRow(starterData)>>)

(* ------------------------------ StarterService ------------------------- *)
\* how processDataSource ends for one data source: the data source is posted
\* and its rows added; the post fails or answers without an _id; or the data
\* source is posted and the request that adds the rows fails
Uploaded == "uploaded"
PostFailed == "post failed"
AddRowsFailed == "addRows failed"
UploadOutcomes == {Uploaded, PostFailed, AddRowsFailed}

\* postNewDataSource gave the data source an id on normative-server
Posted(outcome) == outcome \in {Uploaded, AddRowsFailed}

\* the addSource calls of submitStarterData, in order: the data source types
\* whose parser gave rows, up to the first parser that throws. `otherSources`
\* are those of the electricity and the expenses parser.
addSource(rejects, starterData, otherSources) ==
  LET fuel == parseFuelData(rejects, starterData)
      heating == parseHeatingData(rejects, starterData)
      fuelSource == IF fuel.kind = "rows" THEN <<"fuel">> ELSE <<>>
      heatingSource == IF heating.kind = "rows" THEN <<"heating">> ELSE <<>>
  IN IF fuel.kind = DataTransformError THEN [thrown |-> TRUE, sources |-> <<>>]
     ELSE IF heating.kind = DataTransformError THEN [thrown |-> TRUE, sources |-> fuelSource]
     ELSE [thrown |-> FALSE, sources |-> fuelSource \o heatingSource \o otherSources]

\* the id postNewDataSource gets for the n-th upload: ids are handed out in order
UploadId(next, outcomes, n) == next + Cardinality({m \in 1..(n - 1) : Posted(outcomes[m])})

\* normative-server with the posted data sources added for the organization
ServerWith(server, organizationAccountId, ids) ==
  [server EXCEPT !.dataSources =
     [d \in DataSourceIds |-> IF d \in ids THEN organizationAccountId ELSE server.dataSources[d]]]

\* what the promise of submitStarterData holds when it rejects
NoDataRefs == [reportId |-> 0, dataSources |-> [defined |-> FALSE, ids |-> <<>>]]

\* submitStarterData: the promise's outcome, the references it resolves to,
\* normative-server as the uploads leave it, the next free id and the ids of the
\* data sources posted. An upload that was started runs to its end whether or
\* not another upload or a later parser fails.
submitStarterData(server, next, organizationAccountId, rejects, starterData, otherSources, outcomes) ==
  LET parsedSources == addSource(rejects, starterData, otherSources)
      uploads == parsedSources.sources
      posted == {UploadId(next, outcomes, n) : n \in {m \in DOMAIN uploads : Posted(outcomes[m])}}
      nothing(res) == [result |-> res, dataRefs |-> NoDataRefs, server |-> server, next |-> next,
                       uploaded |-> {}]
      after(res, dataRefs) ==
        [result |-> res, dataRefs |-> dataRefs,
         server |-> ServerWith(server, organizationAccountId, posted),
         next |-> next + Cardinality(posted),
         uploaded |-> posted]
  IN
  IF ~orgs[organizationAccountId].exists
    THEN nothing(Throw(NotFoundException, "Organization was not found."))
  ELSE IF ~Truthy(orgCountry[organizationAccountId])
    THEN nothing(Throw(BadRequestException, "Organization does not have a country recorded."))
  ELSE IF parsedSources.thrown
    THEN after(Throw(DataTransformError, ""), NoDataRefs)
  ELSE IF \E n \in DOMAIN uploads : outcomes[n] # Uploaded
    THEN after(Throw(InternalServerErrorException, ""), NoDataRefs)
  ELSE after(Ok(<<>>),
             [reportId |-> 0,
              dataSources |-> [defined |-> TRUE,
                               ids |-> [n \in DOMAIN uploads |-> next + n - 1]]])

(* ----------------------------- StarterController ----------------------- *)
\* EntryService.getStarterEntry
getStarterEntry(entries, organizationAccountId, entryId) ==
  IF ~entries[entryId].exists
    THEN Throw(NotFoundException, "No entry found with id " \o ToString(entryId))
  ELSE IF entries[entryId].organizationId # organizationAccountId
    THEN Throw(BadRequestException,
               "The requested starter entry does not belong to the organization in the request!")
  ELSE Ok(<<>>)

\* what a handler of the controller leaves behind: its answer, the starter
\* entries, normative-server, the next free data source id, the data sources
\* posted for the request and the deletions the clean-up asked for
Handled(res, entries, server, next, uploaded, deletions) ==
  [result |-> [res EXCEPT !.value = <<>>], entries |-> entries, server |-> server,
   next |-> next, uploaded |-> uploaded, deletions |-> deletions]

\* the handler's answer when submitStarterData rejected: what was posted stays
UploadFailed(entries, dataRefs) ==
  Handled(dataRefs.result, entries, dataRefs.server, dataRefs.next, dataRefs.uploaded, <<>>)

\* the handler's answer after EntryService.updateStarterEntry
UpdateHandled(dataRefs, out) ==
  Handled(out.result, out.entries, dataRefs.server, dataRefs.next, dataRefs.uploaded,
          out.deletions)

\* entryService.updateStarterEntry with the references submitStarterData gave
UpdateWith(entries, reqUser, orgId, entryId, timePeriod, lookupFails, dataRefs) ==
  IF dataRefs.result.kind # "ok" THEN UploadFailed(entries, dataRefs)
  ELSE UpdateHandled(dataRefs,
                     updateStarterEntry(entries, dataRefs.server, lookupFails, reqUser, orgId,
                                        entryId, [timePeriod |-> timePeriod],
                                        dataRefs.dataRefs))

\* the two steps the PUT and the resubmit handler share: upload, then update
SubmitAndUpdate(entries, server, next, reqUser, orgId, entryId, rejects, starterData, timePeriod, otherSources, outcomes, lookupFails) ==
  UpdateWith(entries, reqUser, orgId, entryId, timePeriod, lookupFails,
             submitStarterData(server, next, orgId, rejects, starterData, otherSources,
                               outcomes))

\* entryService.createStarterEntry with the references submitStarterData gave
CreateWith(entries, reqUser, orgId, timePeriod, dataRefs) ==
  IF dataRefs.result.kind # "ok" THEN UploadFailed(entries, dataRefs)
  ELSE Handled(Ok(<<>>),
               [entries EXCEPT ![FreshEntryId(entries)] =
                  createStarterEntry(reqUser, orgId, [timePeriod |-> timePeriod],
                                     dataRefs.dataRefs)],
               dataRefs.server, dataRefs.next, dataRefs.uploaded, <<>>)

\* POST starter/:orgId/entries
postStarterEntry(entries, server, next, reqUser, orgId, rejects, starterData, timePeriod, otherSources, outcomes) ==
  LET auth == checkUserIsAdminOnStarterOrg(reqUser, orgId) IN
  IF auth.kind # "ok" THEN Handled(auth, entries, server, next, {}, <<>>)
  ELSE CreateWith(entries, reqUser, orgId, timePeriod,
                  submitStarterData(server, next, orgId, rejects, starterData, otherSources,
                                    outcomes))

\* PUT starter/:orgId/entries/:entryId
putStarterEntry(entries, server, next, reqUser, orgId, entryId, rejects, starterData, timePeriod, otherSources, outcomes, lookupFails) ==
  LET auth == checkUserIsAdminOnStarterOrg(reqUser, orgId) IN
  IF auth.kind # "ok" THEN Handled(auth, entries, server, next, {}, <<>>)
  ELSE SubmitAndUpdate(entries, server, next, reqUser, orgId, entryId, rejects, starterData,
                       timePeriod, otherSources, outcomes, lookupFails)

\* POST starter/:orgId/entries/:entryId/resubmit; starterData and timePeriod are
\* the rawClientState of the stored entry
resubmitStarterEntry(entries, server, next, reqUser, orgId, entryId, rejects, starterData, timePeriod, otherSources, outcomes, lookupFails) ==
  LET auth == checkUserIsAdminOnStarterOrg(reqUser, orgId)
      starterEntry == getStarterEntry(entries, orgId, entryId)
  IN
  IF auth.kind # "ok" THEN Handled(auth, entries, server, next, {}, <<>>)
  ELSE IF starterEntry.kind # "ok" THEN Handled(starterEntry, entries, server, next, {}, <<>>)
  ELSE SubmitAndUpdate(entries, server, next, reqUser, orgId, entryId, rejects, starterData,
                       timePeriod, otherSources, outcomes, lookupFails)

(* ------------------------------- inputs -------------------------------- *)
\* Request bodies reach the service unvalidated: the invitations tried are the
\* complete ones for every role a body can name, and one with each field missing.
InviteEmails == {"b", "B", "d"}
InviteRoles == OrganizationRole \cup {"specialRole"}
InviteUserData ==
  {[name |-> "New User", email |-> e, role |-> r] : e \in InviteEmails, r \in InviteRoles}
    \cup {[name |-> "", email |-> "d", role |-> r] : r \in {USER, SUPER_ADMIN}}
    \cup {[name |-> "New User", email |-> "", role |-> ADMIN],
          [name |-> "New User", email |-> "d", role |-> ""],
          [name |-> "New User", email |-> "d", role |-> Undefined]}

(* ------------------------ aggregation: state --------------------------- *)
\* an aggregation whose running total is a field of the service, shared by the
\* calls in flight: the totals of the other callers are still in it
AggregateFound_SharedTotal(callers, c) ==
  LET own == aggregateImpacts(callers[c].calculatedImpacts)
      others == CHOOSE o \in DOMAIN callers : o # c
  IN [callers EXCEPT
        ![c].pc = "done",
        ![c].result = [own EXCEPT !.totalEmissions.value =
                         JsAdd(callers[others].result.totalEmissions.value, @)]]

\* `return this.aggregateImpacts(calculatedImpacts)` in the call of caller c:
\* the result is computed from the caller's own list, which is left as it is
AggregateFound(callers, c) ==
  [callers EXCEPT ![c].pc = "done",
                  ![c].result = aggregateImpacts(callers[c].calculatedImpacts)]

\* the callers that can be inside getImpactForDataSources at the same time
Callers == {"c1", "c2"}

NoEmissionCalculation ==
  [totalEmissions |-> [value |-> 0, unit |-> ""], emissionsByScope |-> <<>>]

IdleCaller ==
  [pc |-> "idle", dataSources |-> {}, calculatedImpacts |-> <<>>,
   result |-> NoEmissionCalculation]

NoAggregation ==
  /\ calculatedImpacts = <<>>
  /\ aggs = [c \in Callers |-> IdleCaller]

\* a CalculatedImpact document; `activity` and `impacts` are optional
CalculatedImpact(ghgScope, category, value, source, organization) ==
  [activity |-> [defined |-> TRUE, ghgScope |-> ghgScope, category |-> category],
   impacts |-> [defined |-> TRUE, value |-> value],
   transaction |-> [organization |-> organization, source |-> source]]

WithoutActivity(x) ==
  [x EXCEPT !.activity = [defined |-> FALSE, ghgScope |-> Undefined, category |-> Undefined]]
WithoutImpacts(x) == [x EXCEPT !.impacts = [defined |-> FALSE, value |-> 0]]

\* the documents the collection is filled from: two categories in one scope, a
\* value large enough for a sum to be rounded, documents without activity,
\* category or impacts, two data sources and a document of another organization
ImpactDocuments ==
  {CalculatedImpact("Scope 1", "heat", Big, 1, 1),
   CalculatedImpact("Scope 1", "fuel", 1, 1, 1),
   CalculatedImpact("Scope 1", "fuel", 1, 2, 1),
   CalculatedImpact("Scope 2", "heat", 1, 2, 1),
   WithoutActivity(CalculatedImpact("", "", 1, 1, 1)),
   CalculatedImpact("Scope 1", Undefined, 1, 2, 1),
   WithoutImpacts(CalculatedImpact("Scope 2", "heat", 0, 1, 1)),
   CalculatedImpact("Scope 3", "heat", 1, 1, 2)}

ImpactCollections == UNION {[1..n -> ImpactDocuments] : n \in 0..MaxImpacts}

\* the lists of data source ids a caller asks for
DataSourceQueries == {{1}, {2}, {1, 2}}

(* -------------------------- starter entries: state --------------------- *)
\* the users who submit starter data
Submitters == {1, 2}

\* the user who creates a starter entry during a run
Creators == {1}

\* the references submitStarterData returns for the first submission of an entry
CreatedRefs ==
  {[reportId |-> 2, dataSources |-> [defined |-> TRUE, ids |-> <<3>>]]}

\* the organizations starter entries are held for
EntryOrgs == {1, 2}

\* normative-server holding no data source and no report
EmptyServer == [dataSources |-> [d \in DataSourceIds |-> 0], reports |-> {}]

IdleEntryCall ==
  [op |-> "idle", organizationAccountId |-> 0, entryId |-> 0,
   dataSources |-> <<>>, old |-> NoEntry, server |-> EmptyServer,
   lookupFailed |-> FALSE, failedDeletions |-> {},
   result |-> NoResult, deletions |-> <<>>]

\* no starter entry exists and normative-server holds nothing
NoStarterEntries ==
  /\ starterEntries = [e \in EntryIds |-> NoEntry]
  /\ normativeServer = EmptyServer
  /\ entryCall = IdleEntryCall
  /\ updates = 0

CompletePeriod == [defined |-> TRUE, startDate |-> "2021-01-01", endDate |-> "2021-12-31"]

\* entryData.timePeriod of a request
TimePeriods == {CompletePeriod, NoTimePeriod, [CompletePeriod EXCEPT !.endDate = ""]}

\* the references submitStarterData returns for a submission
DataRefs ==
  {[reportId |-> 0, dataSources |-> [defined |-> FALSE, ids |-> <<>>]],
   [reportId |-> 2, dataSources |-> [defined |-> TRUE, ids |-> <<1>>]],
   [reportId |-> 2, dataSources |-> [defined |-> TRUE, ids |-> <<3>>]]}

\* the entries stored before the first call: entry 1 belongs to organization 1
StoredEntries ==
  {[e \in EntryIds |->
      IF e = 1
        THEN [exists |-> TRUE, organizationId |-> 1, createdBy |-> 1, lastUpdatedBy |-> 1,
              coveredPeriod |-> [startDate |-> "2020-01-01", endDate |-> "2020-12-31"],
              reportId |-> r, dataSources |-> ds]
        ELSE NoEntry] :
     r \in {0, 1}, ds \in {<<>>, <<1, 2>>}}

\* what normative-server holds before the first call: data sources 1 and 2 may be
\* gone or belong to either organization, data source 3 belongs to organization 1
StoredOnServer ==
  {[dataSources |-> [d \in DataSourceIds |->
                       CASE d = 1 -> o1 [] d = 2 -> o2 [] d = 3 -> 1 [] OTHER -> 0],
    reports |-> {1}] :
     o1 \in {0, 1}, o2 \in {0, 1, 2}}

(* ---------------------- organization accounts: state ------------------- *)
IdleAccountCall ==
  [op |-> "idle", user |-> 0, org |-> 0, result |-> NoResult, requests |-> <<>>,
   submitted |-> NoBody, parents |-> {}]

\* no organization has children or modules and no account call was made
NoAccountCalls ==
  /\ children = [o \in OrgIds |-> <<>>]
  /\ modules = [o \in OrgIds |-> <<>>]
  /\ accountCall = IdleAccountCall

(* ------------------------ starter requests: state ---------------------- *)
IdleRequest ==
  [op |-> "idle", user |-> 0, org |-> 0, entryId |-> 0, uploaded |-> {},
   result |-> NoResult]

\* no starter entry request was made
NoSubmissions ==
  /\ request = IdleRequest
  /\ nextDataSourceId = 1
  /\ orgCountry = [o \in OrgIds |-> Undefined]

(* ------------------------- starter parsers: state ---------------------- *)
\* EntrySubmissionData: the parts of the questionnaire the two parsers read
Submission(type, spend, energy, size, fuelSpend, machinerySpend) ==
  [heating |-> [type |-> type, spend |-> spend, energy |-> energy],
   facilities |-> [size |-> size],
   fuel |-> [spend |-> fuelSpend, volume |-> NoValue],
   machinery |-> [spend |-> machinerySpend, volume |-> NoValue]]

EmptySubmission == Submission(Undefined, NoValue, NoValue, NoValue, NoValue, NoValue)

NotParsed == [kind |-> "none", rows |-> <<>>, schemaName |-> ""]

NoParsing ==
  /\ submission = EmptySubmission
  /\ schemaRejects = {}
  /\ parserResults = [fuel |-> NotParsed, heating |-> NotParsed]

(* ------------------------------- actions ------------------------------- *)
\* the service is between two requests
Idle == call.op = "none"

InviteUserToOrganization ==
  /\ Idle
  /\ \E invitedByUser \in ExistingUsers, orgId \in ExistingOrgs, userData \in InviteUserData :
       LET out == inviteUserToOrganization(userData.name, userData.email, userData.role,
                                           orgId, invitedByUser)
           added == out.result.kind = "ok"
       IN
       /\ added => invitations < MaxInvitations
       /\ (added /\ FindUserByEmail(userData.email) = 0) => UserIds # ExistingUsers
       /\ call' = [NoCall EXCEPT !.op = "inviteUserToOrganization", !.user = invitedByUser,
                                 !.org = orgId, !.name = userData.name,
                                 !.email = userData.email, !.role = userData.role,
                                 !.before = orgs[orgId].members]
       /\ result' = out.result
       /\ orgs' = [orgs EXCEPT ![orgId].members = out.members]
       /\ users' = out.users
       /\ invitations' = IF added THEN invitations + 1 ELSE invitations
  /\ UNCHANGED <<aggVars, entryVars, accountVars, submitVars, parserVars>>

CheckMember ==
  /\ Idle
  /\ \E userId \in ExistingUsers, orgId \in ExistingOrgs, minRole \in OrganizationRole :
       /\ call' = [NoCall EXCEPT !.op = "checkMember", !.user = userId, !.org = orgId,
                                 !.wantRole = minRole, !.before = orgs[orgId].members]
       /\ result' = checkMember(orgs[orgId], userId, minRole)
  /\ UNCHANGED <<users, orgs, invitations>>
  /\ UNCHANGED <<aggVars, entryVars, accountVars, submitVars, parserVars>>

CheckSiteRoleAdminOrOrgRole ==
  /\ Idle
  /\ \E reqUser \in ExistingUsers \cup {0}, orgId \in ExistingOrgs,
        orgRoleRequired \in OrganizationRole :
       /\ call' = [NoCall EXCEPT !.op = "checkSiteRoleAdminOrOrgRole", !.user = reqUser,
                                 !.org = orgId, !.wantRole = orgRoleRequired,
                                 !.before = orgs[orgId].members]
       /\ result' = checkSiteRoleAdminOrOrgRole(reqUser, orgs[orgId], orgRoleRequired)
  /\ UNCHANGED <<users, orgs, invitations>>
  /\ UNCHANGED <<aggVars, entryVars, accountVars, submitVars, parserVars>>

CheckUserIsAdminOnStarterOrg ==
  /\ Idle
  /\ \E reqUser \in ExistingUsers \cup {0}, orgId \in OrgIds :
       /\ call' = [NoCall EXCEPT !.op = "checkUserIsAdminOnStarterOrg", !.user = reqUser,
                                 !.org = orgId, !.before = orgs[orgId].members]
       /\ result' = checkUserIsAdminOnStarterOrg(reqUser, orgId)
  /\ UNCHANGED <<users, orgs, invitations>>
  /\ UNCHANGED <<aggVars, entryVars, accountVars, submitVars, parserVars>>

\* the outcome has gone back to the caller; the next request can come in
Respond ==
  /\ ~Idle
  /\ call' = NoCall
  /\ result' = NoResult
  /\ UNCHANGED <<users, orgs, invitations>>
  /\ UNCHANGED <<aggVars, entryVars, accountVars, submitVars, parserVars>>

(* -------------------------------- Init --------------------------------- *)
\* The user collection holds a site admin and two ordinary users; the remaining
\* ids are free for users created by an invitation.
InitUsers ==
  [u \in UserIds |->
     CASE u = 1 -> [exists |-> TRUE, email |-> "a", role |-> SiteAdmin]
       [] u = 2 -> [exists |-> TRUE, email |-> "b", role |-> SiteUser]
       [] u = 3 -> [exists |-> TRUE, email |-> "c", role |-> SiteUser]
       [] OTHER -> NoUser]

\* members arrays an organization can start with: the site admin and user 2
\* each either absent or a member with some role, every user listed at most once
MemberEntry(u, r) == IF r = Undefined THEN <<>> ELSE <<[user |-> u, role |-> r]>>
InitMembers ==
  {MemberEntry(1, r1) \o MemberEntry(2, r2) :
     r1 \in {Undefined, GUEST}, r2 \in OrganizationRole \cup {Undefined}}

\* organization 1 is stored, the other ids are unknown to the database
Init ==
  /\ users = InitUsers
  /\ \E accountType \in OrganizationAccountType \cup {Undefined}, members \in InitMembers :
       orgs = [o \in OrgIds |->
                 IF o = 1
                   THEN [exists |-> TRUE, accountType |-> accountType, members |-> members]
                   ELSE NoOrg]
  /\ invitations = 0
  /\ NoAggregation
  /\ NoStarterEntries
  /\ NoAccountCalls
  /\ NoSubmissions
  /\ NoParsing
  /\ call = NoCall
  /\ result = NoResult

Next ==
  \/ InviteUserToOrganization
  \/ CheckMember
  \/ CheckSiteRoleAdminOrOrgRole
  \/ CheckUserIsAdminOnStarterOrg
  \/ Respond

Spec == Init /\ [][Next]_vars

(* ------------------- the role comparisons on their own ------------------ *)
\* every pair of values a caller can pass, then one comparison applied to it
RoleInit ==
  /\ users = InitUsers
  /\ orgs = [o \in OrgIds |-> NoOrg]
  /\ invitations = 0
  /\ NoAggregation
  /\ NoStarterEntries
  /\ NoAccountCalls
  /\ NoSubmissions
  /\ NoParsing
  /\ \E role \in RoleInputs, wantRole \in RoleInputs :
       call = [NoCall EXCEPT !.op = "input", !.role = role, !.wantRole = wantRole]
  /\ result = NoResult

IsRoleAtLeast ==
  /\ call.op = "input"
  /\ call' = [call EXCEPT !.op = "isRoleAtLeast"]
  /\ result' = Ok(isRoleAtLeast(call.role, call.wantRole))
  /\ UNCHANGED <<users, orgs, invitations>>
  /\ UNCHANGED <<aggVars, entryVars, accountVars, submitVars, parserVars>>

IsRoleAtMost ==
  /\ call.op = "input"
  /\ call' = [call EXCEPT !.op = "isRoleAtMost"]
  /\ result' = Ok(isRoleAtMost(call.role, call.wantRole))
  /\ UNCHANGED <<users, orgs, invitations>>
  /\ UNCHANGED <<aggVars, entryVars, accountVars, submitVars, parserVars>>

RoleNext == IsRoleAtLeast \/ IsRoleAtMost

RoleSpec == RoleInit /\ [][RoleNext]_vars

(* --------------------- the calculation-status check --------------------- *)
DataSourceStatuses == {"succeeded", "failed", "pending"}

\* the lookups of up to MaxDataSourceIds data source ids
LookupLists ==
  UNION {[1..n -> DataSourceStatuses \cup {LookupError}] : n \in 0..MaxDataSourceIds}

CalcInit ==
  /\ users = InitUsers
  /\ orgs = [o \in OrgIds |-> NoOrg]
  /\ invitations = 0
  /\ NoAggregation
  /\ NoStarterEntries
  /\ NoAccountCalls
  /\ NoSubmissions
  /\ NoParsing
  /\ \E lookups \in LookupLists :
       call = [NoCall EXCEPT !.op = "input", !.statuses = lookups]
  /\ result = NoResult

IsCalculationCompleteForDataSources ==
  /\ call.op = "input"
  /\ call' = [call EXCEPT !.op = "isCalculationCompleteForDataSources"]
  /\ result' = isCalculationCompleteForDataSources(call.statuses)
  /\ UNCHANGED <<users, orgs, invitations>>
  /\ UNCHANGED <<aggVars, entryVars, accountVars, submitVars, parserVars>>

CalcNext == IsCalculationCompleteForDataSources

CalcSpec == CalcInit /\ [][CalcNext]_vars

(* ----------------------- getImpactForDataSources ------------------------ *)
\* The handler awaits the database once, so two calls can interleave between
\* the query and the aggregation; aggregateImpacts itself runs without yielding.
AggInit ==
  /\ users = InitUsers
  /\ orgs = [o \in OrgIds |-> NoOrg]
  /\ invitations = 0
  /\ call = NoCall
  /\ result = NoResult
  /\ calculatedImpacts \in ImpactCollections
  /\ aggs = [c \in Callers |-> IdleCaller]
  /\ NoStarterEntries
  /\ NoAccountCalls
  /\ NoSubmissions
  /\ NoParsing

\* const calculatedImpacts = await this.calculatedImpactModel.find(...)
FindCalculatedImpacts ==
  /\ \E c \in Callers, dataSources \in DataSourceQueries :
       /\ aggs[c].pc = "idle"
       /\ aggs' = [aggs EXCEPT ![c] =
                     [pc |-> "found", dataSources |-> dataSources,
                      calculatedImpacts |-> find(calculatedImpacts, 1, dataSources),
                      result |-> NoEmissionCalculation]]
  /\ UNCHANGED <<users, orgs, invitations, call, result, calculatedImpacts>>
  /\ UNCHANGED <<entryVars, accountVars, submitVars, parserVars>>

\* return this.aggregateImpacts(calculatedImpacts)
AggregateImpacts ==
  /\ \E c \in Callers :
       /\ aggs[c].pc = "found"
       /\ aggs' = AggregateFound(aggs, c)
  /\ UNCHANGED <<users, orgs, invitations, call, result, calculatedImpacts>>
  /\ UNCHANGED <<entryVars, accountVars, submitVars, parserVars>>

\* the caller has its result and can call again
AggReturn ==
  /\ \E c \in Callers :
       /\ aggs[c].pc = "done"
       /\ aggs' = [aggs EXCEPT ![c] = IdleCaller]
  /\ UNCHANGED <<users, orgs, invitations, call, result, calculatedImpacts>>
  /\ UNCHANGED <<entryVars, accountVars, submitVars, parserVars>>

AggNext == FindCalculatedImpacts \/ AggregateImpacts \/ AggReturn

AggSpec == AggInit /\ [][AggNext]_vars

(* ------------------------- the starter entry service --------------------- *)
EntryInit ==
  /\ users = InitUsers
  /\ orgs = [o \in OrgIds |-> NoOrg]
  /\ invitations = 0
  /\ call = NoCall
  /\ result = NoResult
  /\ NoAggregation
  /\ starterEntries \in StoredEntries
  /\ normativeServer \in StoredOnServer
  /\ entryCall = IdleEntryCall
  /\ updates = 0
  /\ NoAccountCalls
  /\ NoSubmissions
  /\ NoParsing

\* EntryService.createStarterEntry with a complete time period
CreateStarterEntry ==
  /\ entryCall.op = "idle"
  /\ FreshEntryId(starterEntries) # 0
  /\ \E userId \in Creators, organizationAccountId \in EntryOrgs, dataRefs \in CreatedRefs :
       LET entryId == FreshEntryId(starterEntries)
           starterEntry == createStarterEntry(userId, organizationAccountId,
                                              [timePeriod |-> CompletePeriod], dataRefs)
       IN /\ starterEntries' = [starterEntries EXCEPT ![entryId] = starterEntry]
          /\ entryCall' = [IdleEntryCall EXCEPT
                             !.op = "createStarterEntry",
                             !.organizationAccountId = organizationAccountId,
                             !.entryId = entryId,
                             !.dataSources = starterEntry.dataSources,
                             !.result = Ok(<<>>)]
  /\ UNCHANGED <<normativeServer, updates>>
  /\ UNCHANGED <<users, orgs, invitations, call, result, aggVars>>
  /\ UNCHANGED <<accountVars, submitVars, parserVars>>

\* EntryService.updateStarterEntry, the clean-up of the old entry included. Each
\* deletion normative-server is asked for either happens or fails; a failure is
\* caught and logged by cleanupOldStarterEntry.
UpdateStarterEntry ==
  /\ entryCall.op = "idle"
  /\ updates < MaxUpdates
  /\ \E userId \in Submitters, organizationAccountId \in EntryOrgs, entryId \in EntryIds,
        timePeriod \in TimePeriods, dataRefs \in DataRefs, lookupFails \in BOOLEAN :
       LET out == updateStarterEntry(starterEntries, normativeServer, lookupFails, userId,
                                     organizationAccountId, entryId,
                                     [timePeriod |-> timePeriod], dataRefs)
           requested == {out.deletions[n] : n \in DOMAIN out.deletions}
       IN \E failed \in {{}, requested} :
            /\ starterEntries' = out.entries
            /\ normativeServer' = ServerAfter(normativeServer, out.deletions, failed)
            /\ entryCall' = [op |-> "updateStarterEntry",
                             organizationAccountId |-> organizationAccountId,
                             entryId |-> entryId,
                             dataSources |-> NewDataSources(dataRefs),
                             old |-> starterEntries[entryId],
                             server |-> normativeServer,
                             lookupFailed |-> out.result.kind = LookupError,
                             failedDeletions |-> failed,
                             result |-> [out.result EXCEPT !.value = <<>>],
                             deletions |-> out.deletions]
  /\ updates' = updates + 1
  /\ UNCHANGED <<users, orgs, invitations, call, result, aggVars>>
  /\ UNCHANGED <<accountVars, submitVars, parserVars>>

\* the caller has its answer
EntryReturn ==
  /\ entryCall.op # "idle"
  /\ entryCall' = IdleEntryCall
  /\ UNCHANGED <<starterEntries, normativeServer, updates>>
  /\ UNCHANGED <<users, orgs, invitations, call, result, aggVars>>
  /\ UNCHANGED <<accountVars, submitVars, parserVars>>

EntryNext == CreateStarterEntry \/ UpdateStarterEntry \/ EntryReturn

EntrySpec == EntryInit /\ [][EntryNext]_vars

(* --------------------------- the member requests ------------------------- *)
\* members arrays of organization 1 before the first request: users 2 and 3
\* each absent or a member with some role; user 1, the site admin, is no member
MemberInitMembers ==
  {MemberEntry(2, r2) \o MemberEntry(3, r3) :
     r2 \in OrganizationRole \cup {Undefined}, r3 \in {Undefined, USER, ADMIN, SUPER_ADMIN}}

\* the role a PATCH body can carry
BodyRoles == OrganizationRole \cup {"", "specialRole"}

\* the bodies of the invite requests
InviteBodies ==
  {[name |-> "New User", email |-> e, role |-> r] :
     e \in {"c", "d"}, r \in {USER, ADMIN, SUPER_ADMIN}}
    \cup {[name |-> "", email |-> "d", role |-> SUPER_ADMIN]}

MemberInit ==
  /\ users = InitUsers
  /\ \E members \in MemberInitMembers :
       orgs = [o \in OrgIds |->
                 IF o = 1
                   THEN [exists |-> TRUE, accountType |-> PREMIUM, members |-> members]
                   ELSE NoOrg]
  /\ invitations = 0
  /\ NoAggregation
  /\ NoStarterEntries
  /\ NoAccountCalls
  /\ NoSubmissions
  /\ NoParsing
  /\ call = NoCall
  /\ result = NoResult

\* POST users/invite
Invite ==
  /\ Idle
  /\ \E reqUser \in ExistingUsers \cup {0}, orgId \in OrgIds, newUserData \in InviteBodies :
       LET out == invite(reqUser, orgId, newUserData)
           added == out.result.kind = "ok"
       IN
       /\ added => invitations < MaxInvitations
       /\ (added /\ FindUserByEmail(newUserData.email) = 0) => UserIds # ExistingUsers
       /\ call' = [NoCall EXCEPT !.op = "invite", !.user = reqUser, !.org = orgId,
                                 !.name = newUserData.name, !.email = newUserData.email,
                                 !.role = newUserData.role, !.before = orgs[orgId].members]
       /\ result' = out.result
       /\ orgs' = [orgs EXCEPT ![orgId].members = out.members]
       /\ users' = out.users
       /\ invitations' = IF added THEN invitations + 1 ELSE invitations
  /\ UNCHANGED <<aggVars, entryVars, accountVars, submitVars, parserVars>>

\* PATCH organizationAccounts/:id/members/:userId
UpdateMember ==
  /\ Idle
  /\ \E reqUser \in ExistingUsers \cup {0}, orgId \in OrgIds, userId \in ExistingUsers,
        role \in BodyRoles :
       LET out == updateMember(reqUser, orgId, userId, role)
       IN /\ call' = [NoCall EXCEPT !.op = "updateMember", !.user = reqUser, !.org = orgId,
                                    !.target = userId, !.role = role,
                                    !.before = orgs[orgId].members]
          /\ result' = out.result
          /\ orgs' = [orgs EXCEPT ![orgId].members = out.members]
  /\ UNCHANGED <<users, invitations>>
  /\ UNCHANGED <<aggVars, entryVars, accountVars, submitVars, parserVars>>

\* DELETE organizationAccounts/:id/user/:userId
DeleteMember ==
  /\ Idle
  /\ \E reqUser \in ExistingUsers \cup {0}, orgId \in OrgIds, userId \in ExistingUsers :
       LET out == deleteMember(reqUser, orgId, userId)
       IN /\ call' = [NoCall EXCEPT !.op = "deleteMember", !.user = reqUser, !.org = orgId,
                                    !.target = userId, !.before = orgs[orgId].members]
          /\ result' = out.result
          /\ orgs' = [orgs EXCEPT ![orgId].members = out.members]
  /\ UNCHANGED <<users, invitations>>
  /\ UNCHANGED <<aggVars, entryVars, accountVars, submitVars, parserVars>>

MemberNext == Invite \/ UpdateMember \/ DeleteMember \/ Respond

MemberSpec == MemberInit /\ [][MemberNext]_vars

(* ------------------------ the organization accounts ---------------------- *)
\* no organization is stored before the first call
AccountInit ==
  /\ users = InitUsers
  /\ orgs = [o \in OrgIds |-> NoOrg]
  /\ invitations = 0
  /\ call = NoCall
  /\ result = NoResult
  /\ NoAggregation
  /\ NoStarterEntries
  /\ NoAccountCalls
  /\ NoSubmissions
  /\ NoParsing

\* the data createStarterOrganizationAccount is called with: no body, the plain
\* data of the tests, and data that asks for a premium account, the premium
\* modules or a SUPER_ADMIN member
StarterAccountData ==
  {NoBody, AccountData("", PREMIUM, Absent, Absent, Absent)}
    \cup {AccountData("test-account", accountType, mods, members, Absent) :
            accountType \in {Undefined, PREMIUM},
            mods \in {Absent, Given(defaultModules)},
            members \in {Absent, Given(<<[user |-> 1, role |-> SUPER_ADMIN]>>)}}

\* the bodies POST organizationAccounts is called with
SubmittedAccountData ==
  {AccountData(name, accountType, mods, members, Absent) :
     name \in {"test-account", ""},
     accountType \in {STARTER, PREMIUM},
     mods \in {Given(defaultModules)},
     members \in {Absent, Given(<<[user |-> 1, role |-> SUPER_ADMIN]>>)}}

AccountIdle == accountCall.op = "idle"

\* what a creation leaves in the collection
Created(out) ==
  IF out.result.kind = "ok"
    THEN /\ out.id # 0
         /\ orgs' = [orgs EXCEPT ![out.id] = out.org]
         /\ modules' = [modules EXCEPT ![out.id] = out.modules]
         /\ children' = [children EXCEPT ![out.id] = out.children]
    ELSE UNCHANGED <<orgs, modules, children>>

\* OrganizationAccountService.createStarterOrganizationAccount
CreateStarterOrganizationAccount ==
  /\ AccountIdle
  /\ \E organizationAccountData \in StarterAccountData, adminUserId \in ExistingUsers :
       LET out == createStarterOrganizationAccount(organizationAccountData, adminUserId)
       IN /\ Created(out)
          /\ accountCall' = [IdleAccountCall EXCEPT
                               !.op = "createStarterOrganizationAccount",
                               !.user = adminUserId, !.org = out.id,
                               !.result = out.result,
                               !.submitted = organizationAccountData]
  /\ UNCHANGED <<users, invitations, call, result>>
  /\ UNCHANGED <<aggVars, entryVars, submitVars, parserVars>>

\* POST organizationAccounts
CreateOrganizationAccount ==
  /\ AccountIdle
  /\ \E userId \in ExistingUsers, submittedData \in SubmittedAccountData :
       LET out == createOrganizationAccount(userId, submittedData)
       IN /\ Created(out)
          /\ accountCall' = [IdleAccountCall EXCEPT
                               !.op = "createOrganizationAccount",
                               !.user = userId, !.org = out.id,
                               !.result = out.result,
                               !.submitted = submittedData]
  /\ UNCHANGED <<users, invitations, call, result>>
  /\ UNCHANGED <<aggVars, entryVars, submitVars, parserVars>>

\* OrganizationAccountService.createOrgAccount, with or without a child
CreateOrgAccount ==
  /\ AccountIdle
  /\ \E childIds \in {Absent} \cup {Given(<<c>>) : c \in ExistingOrgs} :
       LET newOrgAccount == AccountData("test-account", Undefined, Absent, Absent, childIds)
           out == createOrgAccount(newOrgAccount)
       IN /\ Created(out)
          /\ accountCall' = [IdleAccountCall EXCEPT
                               !.op = "createOrgAccount", !.org = out.id,
                               !.result = out.result,
                               !.submitted = newOrgAccount]
  /\ UNCHANGED <<users, invitations, call, result>>
  /\ UNCHANGED <<aggVars, entryVars, submitVars, parserVars>>

\* OrganizationAccountService.deleteOrgAccount; each of the three requests for
\* the deletion of the organization's assets may be rejected
DeleteOrgAccount ==
  /\ AccountIdle
  /\ \E organizationId \in OrgIds, rejected \in 0..Len(AssetRequests(0)) :
       LET out == deleteOrgAccount(organizationId, rejected)
       IN /\ orgs' = out.orgs
          /\ children' = out.children
          /\ modules' = out.modules
          /\ accountCall' = [IdleAccountCall EXCEPT
                               !.op = "deleteOrgAccount", !.org = organizationId,
                               !.result = out.result,
                               !.requests = out.requests,
                               !.parents = {o \in OrgIds :
                                              \E n \in DOMAIN children[o] :
                                                children[o][n] = organizationId}]
  /\ UNCHANGED <<users, invitations, call, result>>
  /\ UNCHANGED <<aggVars, entryVars, submitVars, parserVars>>

\* the caller has its answer
AccountReturn ==
  /\ ~AccountIdle
  /\ accountCall' = IdleAccountCall
  /\ UNCHANGED <<orgs, children, modules>>
  /\ UNCHANGED <<users, invitations, call, result>>
  /\ UNCHANGED <<aggVars, entryVars, submitVars, parserVars>>

AccountNext ==
  \/ CreateStarterOrganizationAccount
  \/ CreateOrganizationAccount
  \/ CreateOrgAccount
  \/ DeleteOrgAccount
  \/ AccountReturn

AccountSpec == AccountInit /\ [][AccountNext]_vars

(* --------------------------- the starter parsers -------------------------- *)
\* the quantities of a questionnaire answer: left out, or given
Quantities(unit) == {NoValue, ValueWithUnit(100, unit)}

\* the submissions the parsers are handed: every heating type (or none), each
\* of heating spend, heating energy, facility size, vehicle fuel spend and
\* machinery fuel spend given or left out
Submissions ==
  {Submission(type, spend, energy, size, fuelSpend, machinerySpend) :
     type \in HeatingType \cup {Undefined},
     spend \in Quantities("SEK"), energy \in Quantities("kWh"), size \in Quantities("m^2"),
     fuelSpend \in Quantities("SEK"), machinerySpend \in Quantities("SEK")}

\* the rows a validator can be asked about for one submission
CandidateRows(starterData) ==
  {parseVehiclesUsage(starterData), parseMachineryUsage(starterData),
   NaturalGasRecord(starterData), HeatingDataSourceRow(starterData)}

ParserInit ==
  /\ users = InitUsers
  /\ orgs = [o \in OrgIds |-> NoOrg]
  /\ invitations = 0
  /\ call = NoCall
  /\ result = NoResult
  /\ NoAggregation
  /\ NoStarterEntries
  /\ NoAccountCalls
  /\ NoSubmissions
  /\ submission \in Submissions
  /\ schemaRejects \in SUBSET CandidateRows(submission)
  /\ parserResults = [fuel |-> NotParsed, heating |-> NotParsed]

\* submitStarterData hands the submission to the fuel parser
ParseFuelData ==
  /\ parserResults.fuel = NotParsed
  /\ parserResults' = [parserResults EXCEPT !.fuel = parseFuelData(schemaRejects, submission)]
  /\ UNCHANGED <<users, orgs, invitations, call, result, submission, schemaRejects>>
  /\ UNCHANGED <<aggVars, entryVars, accountVars, submitVars>>

\* submitStarterData hands the submission to the heating parser
ParseHeatingData ==
  /\ parserResults.heating = NotParsed
  /\ parserResults' =
       [parserResults EXCEPT !.heating = parseHeatingData(schemaRejects, submission)]
  /\ UNCHANGED <<users, orgs, invitations, call, result, submission, schemaRejects>>
  /\ UNCHANGED <<aggVars, entryVars, accountVars, submitVars>>

ParserNext == ParseFuelData \/ ParseHeatingData

ParserSpec == ParserInit /\ [][ParserNext]_vars

(* --------------------------- the starter requests ------------------------- *)
\* the users who send starter requests: user 2 is ADMIN of both organizations,
\* user 3 is GUEST of organization 1
Requesters == {2, 3}

\* the questionnaires submitted: natural gas heating with a spend (a fuel data
\* source), district heating with a spend and vehicle fuel (a fuel and a heating
\* data source), and nothing the parsers can use
SubmittedData ==
  {Submission(NATURAL_GAS, ValueWithUnit(100, "SEK"), NoValue, NoValue, NoValue, NoValue),
   Submission(DISTRICT, ValueWithUnit(100, "SEK"), NoValue, NoValue,
              ValueWithUnit(100, "SEK"), NoValue),
   EmptySubmission}

\* the schemas accept every row, or turn down the heating row
SchemaRejects(starterData) == {{}, {HeatingDataSourceRow(starterData)}}

\* the data sources the electricity and the expenses parser give
OtherSources == {<<>>, <<"transaction">>}

\* two starter organizations; organization 1 has a country, a stored entry and
\* may hold data source 1 for it
SubmitInit ==
  /\ users = InitUsers
  /\ orgs = [o \in OrgIds |->
               CASE o = 1 -> [exists |-> TRUE, accountType |-> STARTER,
                              members |-> MemberEntry(2, ADMIN) \o MemberEntry(3, GUEST)]
                 [] o = 2 -> [exists |-> TRUE, accountType |-> STARTER,
                              members |-> MemberEntry(2, ADMIN)]
                 [] OTHER -> NoOrg]
  /\ invitations = 0
  /\ call = NoCall
  /\ result = NoResult
  /\ NoAggregation
  /\ \E ds \in {<<>>, <<1>>} :
       /\ starterEntries =
            [e \in EntryIds |->
               IF e = 1
                 THEN [exists |-> TRUE, organizationId |-> 1, createdBy |-> 2,
                       lastUpdatedBy |-> 2,
                       coveredPeriod |-> [startDate |-> "2020-01-01", endDate |-> "2020-12-31"],
                       reportId |-> 0, dataSources |-> ds]
                 ELSE NoEntry]
       /\ normativeServer =
            [EmptyServer EXCEPT !.dataSources[1] = IF ds = <<>> THEN 0 ELSE 1]
  /\ entryCall = IdleEntryCall
  /\ updates = 0
  /\ NoAccountCalls
  /\ request = IdleRequest
  /\ nextDataSourceId = 2
  /\ \E country \in {Undefined, "SE"} :
       orgCountry = [o \in OrgIds |-> IF o = 1 THEN "SE" ELSE IF o = 2 THEN country ELSE Undefined]
  /\ NoParsing

\* normative-server has ids left for every upload of the submission
IdsLeft(rejects, starterData, otherSources) ==
  nextDataSourceId + Len(addSource(rejects, starterData, otherSources).sources) - 1
    <= NumDataSources

\* how the uploads of the submission can end, one outcome for each
UploadOutcomesOf(rejects, starterData, otherSources) ==
  [1..Len(addSource(rejects, starterData, otherSources).sources) -> UploadOutcomes]

\* the handler is through: each deletion of the clean-up happened or failed
Finish(op, reqUser, orgId, entryId, handled) ==
  LET requested == {handled.deletions[n] : n \in DOMAIN handled.deletions} IN
  \E failed \in {{}, requested} :
    /\ starterEntries' = handled.entries
    /\ normativeServer' = ServerAfter(handled.server, handled.deletions, failed)
    /\ nextDataSourceId' = handled.next
    /\ request' = [op |-> op, user |-> reqUser, org |-> orgId, entryId |-> entryId,
                   uploaded |-> handled.uploaded, result |-> handled.result]
    /\ UNCHANGED <<entryCall, updates, orgCountry>>
    /\ UNCHANGED <<users, orgs, invitations, call, result, aggVars, accountVars, parserVars>>

PostStarterEntry ==
  /\ request.op = "idle"
  /\ FreshEntryId(starterEntries) # 0
  /\ \E reqUser \in Requesters, orgId \in EntryOrgs, starterData \in SubmittedData,
        otherSources \in OtherSources :
       \E rejects \in SchemaRejects(starterData) :
         /\ IdsLeft(rejects, starterData, otherSources)
         /\ \E outcomes \in UploadOutcomesOf(rejects, starterData, otherSources) :
              \E handled \in {postStarterEntry(starterEntries, normativeServer, nextDataSourceId,
                    reqUser, orgId, rejects, starterData, CompletePeriod,
                    otherSources, outcomes)} :
                Finish("createStarterEntry", reqUser, orgId, 0, handled)

PutStarterEntry ==
  /\ request.op = "idle"
  /\ \E reqUser \in Requesters, orgId \in EntryOrgs, entryId \in EntryIds,
        starterData \in SubmittedData, otherSources \in OtherSources,
        lookupFails \in BOOLEAN :
       \E rejects \in SchemaRejects(starterData) :
         /\ IdsLeft(rejects, starterData, otherSources)
         /\ \E outcomes \in UploadOutcomesOf(rejects, starterData, otherSources) :
              \E handled \in {putStarterEntry(starterEntries, normativeServer, nextDataSourceId,
                    reqUser, orgId, entryId, rejects, starterData,
                    CompletePeriod, otherSources, outcomes, lookupFails)} :
                Finish("updateStarterEntry", reqUser, orgId, entryId, handled)

ResubmitStarterEntry ==
  /\ request.op = "idle"
  /\ \E reqUser \in Requesters, orgId \in EntryOrgs, entryId \in EntryIds,
        starterData \in SubmittedData, otherSources \in OtherSources,
        lookupFails \in BOOLEAN :
       \E rejects \in SchemaRejects(starterData) :
         /\ IdsLeft(rejects, starterData, otherSources)
         /\ \E outcomes \in UploadOutcomesOf(rejects, starterData, otherSources) :
              \E handled \in {resubmitStarterEntry(starterEntries, normativeServer, nextDataSourceId,
                    reqUser, orgId, entryId, rejects, starterData,
                    CompletePeriod, otherSources, outcomes, lookupFails)} :
                Finish("resubmitStarterEntry", reqUser, orgId, entryId, handled)

\* the client has its answer
SubmitReturn ==
  /\ request.op # "idle"
  /\ request' = IdleRequest
  /\ UNCHANGED <<nextDataSourceId, orgCountry>>
  /\ UNCHANGED <<users, orgs, invitations, call, result>>
  /\ UNCHANGED <<aggVars, entryVars, accountVars, parserVars>>

SubmitNext == PostStarterEntry \/ PutStarterEntry \/ ResubmitStarterEntry \/ SubmitReturn

SubmitSpec == SubmitInit /\ [][SubmitNext]_vars

(* ======================= properties of the services ====================== *)
\* The order the roles are documented to have, lowest first, stated apart from
\* the rank table of the code.
RolesLowestFirst == <<GUEST, USER, ADMIN, SUPER_ADMIN>>
RankOf(role) == CHOOSE i \in DOMAIN RolesLowestFirst : RolesLowestFirst[i] = role
RanksAtLeast(role, wantRole) ==
  /\ role \in OrganizationRole
  /\ wantRole \in OrganizationRole
  /\ RankOf(role) >= RankOf(wantRole)

\* the role of a user's membership entry in a members array (the first entry
\* listing the user), Undefined for a user the array does not list
MembershipRole(members, userId) ==
  IF \A i \in DOMAIN members : members[i].user # userId
    THEN Undefined
    ELSE members[CHOOSE i \in DOMAIN members :
                   /\ members[i].user = userId
                   /\ \A j \in 1..(i - 1) : members[j].user # userId].role

Invited == call.op = "inviteUserToOrganization"
InviterIsSiteAdmin == users[call.user].role = SiteAdmin
InviteComplete == Truthy(call.name) /\ Truthy(call.email) /\ Truthy(call.role)
MembersAfter == orgs[call.org].members
\* the requested role is at most the inviter's own role in the organization
RequestedRoleAtMostInviters ==
  RanksAtLeast(MembershipRole(call.before, call.user), call.role)

\* C1 (as stated): a non-site-admin's invitation adds the member only if the
\* requested role is at most the inviter's own role in the organization, and
\* otherwise fails with ForbiddenException and adds no member.
C1_EscalationAlwaysForbidden ==
  (Invited /\ ~InviterIsSiteAdmin) =>
     /\ (MembersAfter # call.before => RequestedRoleAtMostInviters)
     /\ (~RequestedRoleAtMostInviters =>
           result.kind = ForbiddenException /\ MembersAfter = call.before)

\* C1 (amended): a non-site-admin's invitation adds the member only if the
\* requested role is at most the inviter's own role in the organization;
\* otherwise no member is added and the call fails, with ForbiddenException when
\* name, email and role are all specified and with BadRequestException when one
\* of them is missing.
C1_EscalationRejectedNoMemberAdded ==
  (Invited /\ ~InviterIsSiteAdmin) =>
     /\ (MembersAfter # call.before => RequestedRoleAtMostInviters)
     /\ (~RequestedRoleAtMostInviters =>
           /\ MembersAfter = call.before
           /\ result.kind = IF InviteComplete THEN ForbiddenException
                                              ELSE BadRequestException)

\* a member with role USER asked for role ADMIN and was refused
C1_Witness ==
  /\ Invited /\ ~InviterIsSiteAdmin /\ InviteComplete
  /\ MembershipRole(call.before, call.user) = USER
  /\ call.role = ADMIN
  /\ result.kind = ForbiddenException
  /\ MembersAfter = call.before

CalcDone == call.op = "isCalculationCompleteForDataSources"

Compared == call.op \in {"isRoleAtLeast", "isRoleAtMost"}

C4_RequiringNothingIsSatisfied ==
  call.op = "isRoleAtLeast" =>
     /\ ((call.role \in OrganizationRole /\ call.wantRole = Undefined)
           => result = Ok(TRUE))
     /\ ((call.role = Undefined /\ call.wantRole \in OrganizationRole)
           => result = Ok(FALSE))

\* C4 (amended): for every defined role r, isRoleAtLeast(r, undefined) is false
\* (an absent required role is never satisfied) and isRoleAtLeast(undefined, r)
\* is false as well: the undefined-role fallback gives false on both sides.
C4_UndefinedOnEitherSideGivesFalse ==
  call.op = "isRoleAtLeast" =>
     /\ ((call.role \in OrganizationRole /\ call.wantRole = Undefined)
           => result = Ok(FALSE))
     /\ ((call.role = Undefined /\ call.wantRole \in OrganizationRole)
           => result = Ok(FALSE))

\* the highest role tested against an undefined required role
C4_Witness ==
  /\ call.op = "isRoleAtLeast"
  /\ call.role = SUPER_ADMIN
  /\ call.wantRole = Undefined
  /\ result = Ok(FALSE)

\* C5: over the four defined roles isRoleAtLeast is a total order consistent
\* with GUEST < USER < ADMIN < SUPER_ADMIN: isRoleAtLeast(a, a) is true, and for
\* distinct a and b exactly one of isRoleAtLeast(a, b) and isRoleAtLeast(b, a) is
\* true, the one whose first argument ranks higher.
C5_TotalOrderOnDefinedRoles ==
  (call.op = "isRoleAtLeast" /\ call.role \in OrganizationRole
                             /\ call.wantRole \in OrganizationRole) =>
     /\ result.kind = "ok"
     /\ (call.role = call.wantRole => result.value = TRUE)
     /\ (call.role # call.wantRole =>
           /\ result.value # isRoleAtLeast(call.wantRole, call.role)
           /\ result.value = (RankOf(call.role) > RankOf(call.wantRole)))

\* ADMIN against USER: true this way round, false the other way round
C5_Witness ==
  /\ call.op = "isRoleAtLeast"
  /\ call.role = ADMIN
  /\ call.wantRole = USER
  /\ result = Ok(TRUE)
  /\ ~isRoleAtLeast(USER, ADMIN)

\* C6: for an authenticated actor checkSiteRoleAdminOrOrgRole succeeds exactly
\* when the actor's site role is ADMIN or the actor's membership in the
\* organization has a role at least the required one; in every other case it
\* throws ForbiddenException.
C6_SiteAdminOrOrgRole ==
  (call.op = "checkSiteRoleAdminOrOrgRole" /\ call.user # 0) =>
     IF \/ users[call.user].role = SiteAdmin
        \/ RanksAtLeast(MembershipRole(orgs[call.org].members, call.user), call.wantRole)
       THEN result.kind = "ok"
       ELSE result.kind = ForbiddenException

\* an ordinary user who is ADMIN of the organization passes a check for USER
C6_Witness ==
  /\ call.op = "checkSiteRoleAdminOrOrgRole"
  /\ call.user # 0
  /\ users[call.user].role # SiteAdmin
  /\ MembershipRole(orgs[call.org].members, call.user) = ADMIN
  /\ call.wantRole = USER
  /\ result.kind = "ok"

StarterChecked == call.op = "checkUserIsAdminOnStarterOrg"

\* C7: checkUserIsAdminOnStarterOrg returns the user and the organization only
\* when the account type is exactly STARTER and the user is a member with role
\* at least ADMIN; the type gate does not depend on the role: a member of any
\* role on an organization of another type gets ForbiddenException.
C7_StarterTypeAndAdminRole ==
  StarterChecked =>
     /\ (result.kind = "ok" =>
           /\ orgs[call.org].exists
           /\ orgs[call.org].accountType = STARTER
           /\ \E i \in DOMAIN orgs[call.org].members :
                 /\ orgs[call.org].members[i].user = call.user
                 /\ RanksAtLeast(orgs[call.org].members[i].role, ADMIN)
           /\ result.value = <<call.user, call.org>>)
     /\ ((call.user # 0 /\ orgs[call.org].exists /\ orgs[call.org].accountType # STARTER)
           => result.kind = ForbiddenException)

\* a SUPER_ADMIN member of a premium organization is refused
C7_Witness ==
  /\ StarterChecked
  /\ call.user # 0
  /\ orgs[call.org].exists
  /\ orgs[call.org].accountType = PREMIUM
  /\ MembershipRole(orgs[call.org].members, call.user) = SUPER_ADMIN
  /\ result.kind = ForbiddenException

\* C8: a request for an organization that does not exist is answered with
\* ForbiddenException, and a caller without access cannot tell it from the
\* answer for an organization that exists: the outcome is the same as for every
\* stored organization the caller is refused on.
C8_MissingOrgIndistinguishable ==
  (StarterChecked /\ call.user # 0 /\ ~orgs[call.org].exists) =>
     /\ result.kind = ForbiddenException
     /\ \A o \in ExistingOrgs :
           checkUserIsAdminOnStarterOrg(call.user, o).kind # "ok"
             => checkUserIsAdminOnStarterOrg(call.user, o) = result

\* C9: checkMember throws ForbiddenException for a user without a membership
\* entry in the organization, whatever minRole is asked for, GUEST included.
C9_NoMembershipIsForbidden ==
  (call.op = "checkMember"
     /\ \A i \in DOMAIN orgs[call.org].members : orgs[call.org].members[i].user # call.user)
     => result.kind = ForbiddenException

\* a user who is no member is refused even the lowest role
C9_Witness ==
  /\ call.op = "checkMember"
  /\ \A i \in DOMAIN orgs[call.org].members : orgs[call.org].members[i].user # call.user
  /\ call.wantRole = GUEST
  /\ result.kind = ForbiddenException

\* the email asked for is the email of a member already
EmailOfMember == \E i \in DOMAIN call.before : users[call.before[i].user].email = call.email

C11_AtMostIsAtLeastSwapped ==
  call.op = "isRoleAtMost" =>
     result = Ok(isRoleAtLeast(call.wantRole, call.role))

\* isRoleAtMost with an absent ceiling gives false, as isRoleAtLeast(undefined, USER)
C11_Witness ==
  /\ call.op = "isRoleAtMost"
  /\ call.role = USER
  /\ call.wantRole = Undefined
  /\ result = Ok(FALSE)
  /\ ~isRoleAtLeast(Undefined, USER)

(* ----------------------------- aggregation ------------------------------ *)
\* the sum of a list of whole numbers, never rounded
RECURSIVE SeqSum(_)
SeqSum(seq) == IF seq = <<>> THEN 0 ELSE seq[1] + SeqSum(Tail(seq))

\* the sum of a list of numbers as a program adds them up: in list order, every
\* addition rounded
RECURSIVE FloatSum(_)
FloatSum(seq) ==
  IF seq = <<>> THEN 0
  ELSE JsAdd(FloatSum(SubSeq(seq, 1, Len(seq) - 1)), seq[Len(seq)])

ValuesOf(records) ==
  [n \in DOMAIN records |-> IF records[n].impacts.defined THEN records[n].impacts.value ELSE 0]
EmissionValues(entries) == [n \in DOMAIN entries |-> entries[n].emission.value]

\* the values of the records are small enough for every sum of them to be exact
ExactlySummable(records) == SeqSum(ValuesOf(records)) <= Pow2(MantissaBits)

Aggregated(c) == aggs[c].pc = "done"

\* C12 (as stated): in every aggregation result each scope's value equals the
\* sum of the values of its category breakdown, and totalEmissions.value equals
\* the sum of the values of all scopes (the sums taken as a program adds the
\* listed values up).
C12_ValuesAreSumsOfParts ==
  \A c \in Callers : Aggregated(c) =>
     LET r == aggs[c].result IN
     /\ \A n \in DOMAIN r.emissionsByScope :
           r.emissionsByScope[n].emission.value
             = FloatSum(EmissionValues(r.emissionsByScope[n].categoryBreakdown))
     /\ r.totalEmissions.value = FloatSum(EmissionValues(r.emissionsByScope))

\* C12 (amended): each scope's value equals the sum of the values of its
\* category breakdown, and totalEmissions.value the sum of the values of all
\* scopes, whenever the values are such that no addition is rounded; whatever the
\* values, totalEmissions.value is the scope values added in the order of the
\* scope list, each addition rounded as a floating-point number.
C12_ValuesAreSumsOfPartsWhenExact ==
  \A c \in Callers : Aggregated(c) =>
     LET r == aggs[c].result IN
     /\ r.totalEmissions.value = FloatSum(EmissionValues(r.emissionsByScope))
     /\ ExactlySummable(aggs[c].calculatedImpacts) =>
          /\ \A n \in DOMAIN r.emissionsByScope :
                r.emissionsByScope[n].emission.value
                  = SeqSum(EmissionValues(r.emissionsByScope[n].categoryBreakdown))
          /\ r.totalEmissions.value = SeqSum(EmissionValues(r.emissionsByScope))

\* one scope with two impacts in one category and one in another, a second scope
C12_Witness ==
  \E c \in Callers :
     /\ Aggregated(c)
     /\ ExactlySummable(aggs[c].calculatedImpacts)
     /\ Len(aggs[c].result.emissionsByScope) = 1
     /\ Len(aggs[c].result.emissionsByScope[1].categoryBreakdown) = 2
     /\ aggs[c].result.emissionsByScope[1].categoryBreakdown[1].emission.value = 2
     /\ aggs[c].result.emissionsByScope[1].emission.value = 3
     /\ aggs[c].result.totalEmissions.value = 3

\* every rearrangement of a list
Rearrangements(seq) ==
  LET n == Len(seq)
      orders == {f \in [1..n -> 1..n] : \A i, j \in 1..n : i # j => f[i] # f[j]}
  IN {[i \in 1..n |-> seq[f[i]]] : f \in orders}

ScopeNames(r) == {r.emissionsByScope[n].scope : n \in DOMAIN r.emissionsByScope}
ScopeValues(r) ==
  {[scope |-> r.emissionsByScope[n].scope, value |-> r.emissionsByScope[n].emission.value] :
     n \in DOMAIN r.emissionsByScope}

\* C13 (as stated): the aggregated total is the same for every permutation of
\* the same input records.
C13_TotalSameForEveryPermutation ==
  \A c \in Callers : Aggregated(c) =>
     \A shuffled \in Rearrangements(aggs[c].calculatedImpacts) :
        aggregateImpacts(shuffled).totalEmissions.value
          = aggs[c].result.totalEmissions.value

\* C13 (amended): for every permutation of the same input records the grouping
\* is the same (the same scopes are reported), and whenever the values are such
\* that no addition is rounded the value of every scope and the total are the
\* same as well; with rounding the total can depend on the order of the input.
C13_TotalSameForEveryPermutationWhenExact ==
  \A c \in Callers : Aggregated(c) =>
     \A shuffled \in Rearrangements(aggs[c].calculatedImpacts) :
        LET q == aggregateImpacts(shuffled) IN
        /\ ScopeNames(q) = ScopeNames(aggs[c].result)
        /\ ExactlySummable(aggs[c].calculatedImpacts) =>
             /\ ScopeValues(q) = ScopeValues(aggs[c].result)
             /\ q.totalEmissions.value = aggs[c].result.totalEmissions.value

\* three records of two scopes, the first scope before and after the second
C13_Witness ==
  \E c \in Callers :
     /\ Aggregated(c)
     /\ Len(aggs[c].calculatedImpacts) = 3
     /\ ExactlySummable(aggs[c].calculatedImpacts)
     /\ ScopeKey(aggs[c].calculatedImpacts[1]) = "Scope 1"
     /\ ScopeKey(aggs[c].calculatedImpacts[2]) = "Scope 2"
     /\ ScopeKey(aggs[c].calculatedImpacts[3]) = "Scope 1"
     /\ aggs[c].result.totalEmissions.value = 3
     /\ Len(aggs[c].result.emissionsByScope) = 2

LacksScope(x) == ~x.activity.defined \/ x.activity.ghgScope \in {Undefined, Null}
LacksCategory(x) == ~x.activity.defined \/ x.activity.category \in {Undefined, Null}

\* the entries of a result list that carry a given name
ScopeEntries(r, name) ==
  {n \in DOMAIN r.emissionsByScope : r.emissionsByScope[n].scope = name}
CategoryEntries(breakdown, name) ==
  {n \in DOMAIN breakdown : breakdown[n].category = name}

\* C14: aggregation raises no error for a record with missing fields: a record
\* lacking a scope is counted in a scope named 'unknown', and a record lacking a
\* category is counted in a category named 'unknown' within its scope.
C14_MissingFieldsCountedAsUnknown ==
  \A c \in Callers : Aggregated(c) =>
     LET records == aggs[c].calculatedImpacts
         r == aggs[c].result
         noScope(x) == LacksScope(x)
         unknownScope == SelectSeq(records, noScope)
     IN
     \* a result is returned, with a number as its total
     /\ r.totalEmissions.unit = CO2KGS
     /\ r.totalEmissions.value \in Nat
     \* the records without a scope make up the one scope named 'unknown'
     /\ Cardinality(ScopeEntries(r, "unknown")) = (IF unknownScope = <<>> THEN 0 ELSE 1)
     /\ \A n \in ScopeEntries(r, "unknown") :
           r.emissionsByScope[n].emission.value = FloatSum(ValuesOf(unknownScope))
     \* within every scope the records without a category make up the one
     \* category named 'unknown'
     /\ \A n \in DOMAIN r.emissionsByScope :
           LET inScope(x) ==
                 /\ (IF LacksScope(x) THEN "unknown" ELSE x.activity.ghgScope)
                      = r.emissionsByScope[n].scope
                 /\ LacksCategory(x)
               unknownCategory == SelectSeq(records, inScope)
               breakdown == r.emissionsByScope[n].categoryBreakdown
           IN
           /\ Cardinality(CategoryEntries(breakdown, "unknown"))
                = (IF unknownCategory = <<>> THEN 0 ELSE 1)
           /\ \A k \in CategoryEntries(breakdown, "unknown") :
                 breakdown[k].emission.value = FloatSum(ValuesOf(unknownCategory))

\* a record without activity next to a record of Scope 1 without a category
C14_Witness ==
  \E c \in Callers :
     /\ Aggregated(c)
     /\ Len(aggs[c].calculatedImpacts) = 2
     /\ ~aggs[c].calculatedImpacts[1].activity.defined
     /\ aggs[c].calculatedImpacts[2].activity.ghgScope = "Scope 1"
     /\ aggs[c].calculatedImpacts[2].activity.category = Undefined
     /\ aggs[c].result.emissionsByScope[1].scope = "unknown"
     /\ aggs[c].result.emissionsByScope[1].emission.value = 1
     /\ aggs[c].result.emissionsByScope[2].categoryBreakdown[1].category = "unknown"
     /\ aggs[c].result.emissionsByScope[2].categoryBreakdown[1].emission.value = 1

\* C15: if any one data-source status lookup fails, the check fails with that
\* error instead of returning false: a failed lookup is never reported as
\* 'incomplete'.
C15_LookupFailurePropagates ==
  (CalcDone /\ \E i \in DOMAIN call.statuses : call.statuses[i] = LookupError) =>
     /\ result.kind = LookupError
     /\ result.kind # "ok"

\* one lookup of three fails, the other data sources are completed and pending
C15_Witness ==
  /\ CalcDone
  /\ call.statuses = <<"succeeded", LookupError, "pending">>
  /\ result.kind = LookupError

\* what a call with these data sources returns when it runs alone
AloneResult(dataSources) == aggregateImpacts(find(calculatedImpacts, 1, dataSources))

\* C16: aggregation is a pure function of its input list: it modifies neither
\* the input records nor any shared state, so that each of several concurrent
\* invocations returns exactly the result it would return if run alone.
C16_ConcurrentCallsAsIfAlone ==
  /\ [](\A c \in Callers : Aggregated(c) => aggs[c].result = AloneResult(aggs[c].dataSources))
  /\ [][/\ calculatedImpacts' = calculatedImpacts
        /\ \A c \in Callers :
              aggs[c].pc = "found" =>
                 /\ aggs'[c].calculatedImpacts = aggs[c].calculatedImpacts
                 /\ aggs'[c].dataSources = aggs[c].dataSources]_vars

\* both callers are inside the handler at once, with different data sources,
\* and the second one to ask is the first one to get its result
C16_Witness ==
  /\ aggs["c1"].pc = "found"
  /\ aggs["c2"].pc = "done"
  /\ aggs["c1"].dataSources = {1}
  /\ aggs["c2"].dataSources = {1, 2}
  /\ aggs["c1"].calculatedImpacts # <<>>
  /\ aggs["c2"].result.totalEmissions.value > 0
  /\ aggs["c2"].result # aggregateImpacts(aggs["c1"].calculatedImpacts)

\* C17: aggregating an empty list of records yields totalEmissions.value 0 and
\* an empty list of scopes.
C17_EmptyListGivesZeroAndNoScopes ==
  \A c \in Callers : (Aggregated(c) /\ aggs[c].calculatedImpacts = <<>>) =>
     /\ aggs[c].result.totalEmissions.value = 0
     /\ aggs[c].result.totalEmissions.unit = CO2KGS
     /\ aggs[c].result.emissionsByScope = <<>>

\* the database holds documents, but none of the data sources asked for
C17_Witness ==
  \E c \in Callers :
     /\ Aggregated(c)
     /\ calculatedImpacts # <<>>
     /\ aggs[c].calculatedImpacts = <<>>
     /\ aggs[c].result = [totalEmissions |-> [value |-> 0, unit |-> CO2KGS],
                          emissionsByScope |-> <<>>]

(* ------------------------------ membership ------------------------------- *)
MemberEmails(members) == [i \in DOMAIN members |-> users[members[i].user].email]
\* no two entries of the members array are for the same email
OneEntryPerEmail(members) ==
  \A i, j \in DOMAIN members :
    MemberEmails(members)[i] = MemberEmails(members)[j] => i = j
\* the invitation passed the checks made before the membership check
PassedEarlierChecks ==
  /\ InviteComplete
  /\ result.kind # ForbiddenException
AlreadyMemberRefused ==
  /\ result = Throw(BadRequestException,
                    "User with specified email is already organization member")
  /\ MembersAfter = call.before

\* C20: an organization never has two membership entries for the same email; an
\* invitation of an email that already belongs to a member fails with 'User with
\* specified email is already organization member' and leaves the members as
\* they were.
C20_NoSecondEntryForSameEmail ==
  /\ \A o \in ExistingOrgs : OneEntryPerEmail(orgs[o].members)
  /\ (Invited /\ PassedEarlierChecks /\ EmailOfMember) => AlreadyMemberRefused

\* the part of C20 the code keeps: an invitation whose email is written exactly
\* as a member's stored email is refused and changes nothing
C20_ExactEmailRefused ==
  (Invited /\ PassedEarlierChecks /\ EmailOfMember) => AlreadyMemberRefused

\* the invitation of "B" while the user stored with email "b" is a member
C20_CaseVariantAddedTwice ==
  /\ Invited
  /\ call.email = "B"
  /\ result.kind = "ok"
  /\ \E i \in DOMAIN call.before : call.before[i].user = 2
  /\ MembersAfter = Append(call.before, [user |-> 2, role |-> call.role])

(* ---------------------------- starter entries --------------------------- *)
Updated == entryCall.op = "updateStarterEntry"
UpdateSucceeded == Updated /\ entryCall.result.kind = "ok"
Elements(seq) == {seq[n] : n \in DOMAIN seq}
RequestedDeletions == Elements(entryCall.deletions)
\* the data sources normative-server held for the entry's organization when the
\* update was called
StillExisting ==
  {d \in DataSourceIds : entryCall.server.dataSources[d] = entryCall.old.organizationId}
OldDataSources == Elements(entryCall.old.dataSources)
OldReport == IF entryCall.old.reportId = 0 THEN {} ELSE {entryCall.old.reportId}

\* C18: after a successful updateStarterEntry the deletions requested are exactly
\* the old entry's report and those of its data sources that still exist for the
\* organization; nothing is requested when the old entry had neither, and a data
\* source only the updated entry references is not deleted.
C18_DeletesOldReportAndExistingOldDataSources ==
  UpdateSucceeded =>
    /\ RequestedDeletions =
         {DeleteDataSource(d) : d \in OldDataSources \cap StillExisting}
           \cup {DeleteReport(r) : r \in OldReport}
    /\ (OldDataSources = {} /\ OldReport = {}) => entryCall.deletions = <<>>
    /\ \A d \in Elements(entryCall.dataSources) \ OldDataSources :
         DeleteDataSource(d) \notin RequestedDeletions

\* an update of an entry with a report, a data source that still exists and one
\* that is gone, replaced by a reference to another data source
C18_Witness ==
  /\ UpdateSucceeded
  /\ entryCall.old.dataSources = <<1, 2>>
  /\ StillExisting = {1, 3}
  /\ entryCall.old.reportId = 1
  /\ entryCall.dataSources = <<3>>
  /\ entryCall.deletions = <<DeleteDataSource(1), DeleteReport(1)>>
  /\ normativeServer.dataSources[1] = 0
  /\ normativeServer.dataSources[3] = 1

OrganizationDiffers ==
  /\ Updated
  /\ entryCall.old.exists
  /\ entryCall.organizationAccountId # entryCall.old.organizationId

\* C19: the organization of a starter entry never changes after creation. An
\* updateStarterEntry call naming another organization than the entry's fails
\* with BadRequestException and leaves the entry as it was, and no step, a
\* successful update included, changes the organizationId of an existing entry.
C19_OrganizationNeverChanges ==
  /\ [](OrganizationDiffers =>
          /\ entryCall.result.kind = BadRequestException
          /\ starterEntries[entryCall.entryId] = entryCall.old)
  /\ [][\A e \in EntryIds :
          starterEntries[e].exists =>
            /\ starterEntries'[e].exists
            /\ starterEntries'[e].organizationId = starterEntries[e].organizationId]_vars

\* an update of entry 1, kept for organization 1, requested for organization 2
C19_Witness ==
  /\ OrganizationDiffers
  /\ entryCall.entryId = 1
  /\ entryCall.organizationAccountId = 2
  /\ entryCall.result =
       Throw(BadRequestException,
             "Cannot change the organization associated with a starter entry.")
  /\ starterEntries[1].organizationId = 1

\* the update got as far as saving the entry: the entry exists, belongs to the
\* organization of the request and the request has a complete time period
EntrySaved ==
  /\ Updated
  /\ entryCall.old.exists
  /\ ~OrganizationDiffers
  /\ entryCall.result.kind # BadRequestException
CleanupFailed == entryCall.lookupFailed \/ entryCall.failedDeletions # {}
UpdatedEntryStored ==
  /\ starterEntries[entryCall.entryId].dataSources = entryCall.dataSources
  /\ starterEntries[entryCall.entryId].organizationId = entryCall.old.organizationId

\* C26: a failure during the clean-up of the old report and data sources, which
\* runs only after the updated entry has been saved, never makes
\* updateStarterEntry fail: the updated entry is stored and returned.
C26_CleanupFailureNeverFailsUpdate ==
  (EntrySaved /\ CleanupFailed) =>
    /\ entryCall.result.kind = "ok"
    /\ UpdatedEntryStored

\* the part of C26 the code keeps: deletions that fail are caught, and the
\* clean-up is only ever attempted with the updated entry stored
C26_FailedDeletionsAreCaught ==
  /\ (EntrySaved /\ entryCall.failedDeletions # {}) => entryCall.result.kind = "ok"
  /\ (Updated /\ (CleanupFailed \/ entryCall.deletions # <<>>)) =>
       (EntrySaved /\ UpdatedEntryStored)

\* both deletions of the clean-up fail and the update still succeeds
C26_DeletionsFailedUpdateSucceeded ==
  /\ UpdateSucceeded
  /\ entryCall.failedDeletions = {DeleteDataSource(1), DeleteReport(1)}
  /\ entryCall.server.dataSources[1] = 1 /\ normativeServer.dataSources[1] = 1
  /\ UpdatedEntryStored

\* the list of data sources cannot be fetched for the clean-up: the entry is
\* stored as updated and the update fails
C26_LookupFailedUpdateRejected ==
  /\ EntrySaved
  /\ entryCall.lookupFailed
  /\ entryCall.result.kind = LookupError
  /\ entryCall.old.dataSources = <<1, 2>>
  /\ entryCall.dataSources = <<3>>
  /\ UpdatedEntryStored
  /\ entryCall.deletions = <<>>

(* ---------------------------- member requests ---------------------------- *)
NoSuperAdmin(members) == \A i \in DOMAIN members : members[i].role # SUPER_ADMIN
MemberRequest == call.op \in {"invite", "updateMember", "deleteMember"}
ActorIsSiteAdmin == call.user # 0 /\ users[call.user].role = SiteAdmin
ActorRole == MembershipRole(call.before, call.user)

\* C24: starting from an organization with no SUPER_ADMIN member, no sequence of
\* invite and member-role-update requests by actors who are not site admins
\* gives a member the role SUPER_ADMIN: every request of such an actor made on
\* an organization without SUPER_ADMIN leaves it without SUPER_ADMIN.
C24_NoSuperAdminWithoutSiteAdmin ==
  [][\A o \in OrgIds :
       (NoSuperAdmin(orgs[o].members) /\ ~ActorIsSiteAdmin')
          => NoSuperAdmin(orgs'[o].members)]_vars

\* an organization ADMIN who is no site admin asks for SUPER_ADMIN for a member
\* and is refused
C24_Witness ==
  /\ call.op = "updateMember"
  /\ ~ActorIsSiteAdmin
  /\ ActorRole = ADMIN
  /\ call.role = SUPER_ADMIN
  /\ MembershipRole(call.before, call.target) = USER
  /\ result.kind = ForbiddenException
  /\ NoSuperAdmin(MembersAfter)

\* role r is an organization role strictly above role a (no role at all ranks
\* below every role)
StrictlyAbove(r, a) ==
  /\ r \in OrganizationRole
  /\ (a \in OrganizationRole => RankOf(r) > RankOf(a))
EntriesOf(members, userId) ==
  LET listed(m) == m.user = userId IN SelectSeq(members, listed)

\* C27: an actor who is no site admin can neither change the role of nor remove
\* a member whose organization role is strictly higher than the actor's own.
C27_HigherMemberUntouched ==
  (call.op \in {"updateMember", "deleteMember"} /\ ~ActorIsSiteAdmin) =>
    \A i \in DOMAIN call.before :
      StrictlyAbove(call.before[i].role, ActorRole) =>
        EntriesOf(MembersAfter, call.before[i].user)
          = EntriesOf(call.before, call.before[i].user)

\* the part of C27 the code keeps: an actor who is no site admin and below
\* ADMIN in the organization changes no member
C27_BelowAdminChangesNothing ==
  (MemberRequest /\ ~ActorIsSiteAdmin /\ ~RanksAtLeast(ActorRole, ADMIN)) =>
    /\ MembersAfter = call.before
    /\ result.kind \in {ForbiddenException, UnauthorizedException, NotFoundException}

\* an organization ADMIN removes a SUPER_ADMIN
C27_AdminRemovedSuperAdmin ==
  /\ call.op = "deleteMember"
  /\ ~ActorIsSiteAdmin
  /\ ActorRole = ADMIN
  /\ MembershipRole(call.before, call.target) = SUPER_ADMIN
  /\ result.kind = "ok"
  /\ MembershipRole(MembersAfter, call.target) = Undefined

\* an organization ADMIN turns a SUPER_ADMIN into a GUEST
C27_AdminDemotedSuperAdmin ==
  /\ call.op = "updateMember"
  /\ ~ActorIsSiteAdmin
  /\ ActorRole = ADMIN
  /\ MembershipRole(call.before, call.target) = SUPER_ADMIN
  /\ result.kind = "ok"
  /\ MembershipRole(MembersAfter, call.target) = GUEST

(* ------------------------- organization accounts ------------------------- *)
DeleteSucceeded == accountCall.op = "deleteOrgAccount" /\ accountCall.result.kind = "ok"
TimesRequested(req) ==
  Cardinality({n \in DOMAIN accountCall.requests : accountCall.requests[n] = req})
ListsAsChild(o, organizationId) ==
  \E n \in DOMAIN children[o] : children[o][n] = organizationId

\* C21: after deleteOrgAccount succeeds for an organization, its document no
\* longer exists, no organization lists it among its children, and the deletion
\* of its data sources, of its reports and of its starter entries has each been
\* requested exactly once.
C21_DeletedWithAssetsAndChildEntries ==
  DeleteSucceeded =>
    /\ ~orgs[accountCall.org].exists
    /\ \A o \in OrgIds : ~ListsAsChild(o, accountCall.org)
    /\ TimesRequested(DeleteOrgDataSources(accountCall.org)) = 1
    /\ TimesRequested(DeleteOrgReports(accountCall.org)) = 1
    /\ TimesRequested(DeleteStarterEntries(accountCall.org)) = 1
    /\ Len(accountCall.requests) = 3

\* an organization that another, still stored organization listed as its child
\* has been deleted
C21_Witness ==
  /\ DeleteSucceeded
  /\ \E o \in accountCall.parents :
       /\ o # accountCall.org
       /\ orgs[o].exists
       /\ children[o] = <<>>

\* createStarterOrganizationAccount created an organization, called directly or
\* by the controller for a body with account type STARTER
StarterAccountCreated ==
  /\ \/ accountCall.op = "createStarterOrganizationAccount"
     \/ /\ accountCall.op = "createOrganizationAccount"
        /\ accountCall.submitted.accountType = STARTER
  /\ accountCall.result.kind = "ok"

\* C22: an organization created through createStarterOrganizationAccount has
\* account type STARTER, exactly the default starter modules and exactly one
\* member, the given admin user with role ADMIN, whatever account type, modules
\* or members the submitted data contained.
C22_StarterAccountIsLimited ==
  StarterAccountCreated =>
    /\ orgs[accountCall.org].exists
    /\ orgs[accountCall.org].accountType = STARTER
    /\ modules[accountCall.org] = defaultStarterModlules
    /\ orgs[accountCall.org].members = <<[user |-> accountCall.user, role |-> ADMIN]>>

\* data asking for a premium account with the premium modules and a SUPER_ADMIN
\* member was submitted by another user
C22_Witness ==
  /\ StarterAccountCreated
  /\ accountCall.submitted.accountType = PREMIUM
  /\ accountCall.submitted.modules = Given(defaultModules)
  /\ accountCall.submitted.members = Given(<<[user |-> 1, role |-> SUPER_ADMIN]>>)
  /\ accountCall.user = 2
  /\ orgs[accountCall.org].accountType = STARTER

(* ---------------------------- starter parsers ---------------------------- *)
BothParsed == parserResults.fuel # NotParsed /\ parserResults.heating # NotParsed
GasHeating == submission.heating.type = NATURAL_GAS
SpendOrEnergyGiven == submission.heating.spend.given \/ submission.heating.energy.given
SizeGiven == submission.facilities.size.given

\* the fuel parser's rows hold the heating usage
FuelParserHasHeating ==
  \E i \in DOMAIN parserResults.fuel.rows :
    /\ parserResults.fuel.rows[i].costCenter = "Heating by NATURAL_GAS"
    /\ parserResults.fuel.rows[i].cost = submission.heating.spend
    /\ parserResults.fuel.rows[i].energy = submission.heating.energy
\* the heating parser's rows hold the heating usage
HeatingParserHasHeating ==
  /\ parserResults.heating.kind = "rows"
  /\ Len(parserResults.heating.rows) = 1
  /\ parserResults.heating.rows[1].area = submission.facilities.size
FuelParserRejected == parserResults.fuel.kind = DataTransformError
HeatingParserRejected == parserResults.heating.kind = DataTransformError

\* C23: for a submission with heating type NATURAL_GAS the heating usage never
\* becomes rows of both parsers; with heating spend or energy given the heating
\* parser returns null and the fuel parser's rows hold it, with only the
\* facility size given the fuel parser holds none of it and the heating parser
\* returns the row, with no quantity given neither does (a parser whose row the
\* schema turns down throws DataTransformError in place of returning its rows)
C23_NaturalGasParsedByOneParser ==
  (BothParsed /\ GasHeating) =>
    /\ ~(FuelParserHasHeating /\ HeatingParserHasHeating)
    /\ SpendOrEnergyGiven =>
         /\ parserResults.heating = NullRows
         /\ FuelParserHasHeating \/ FuelParserRejected
         /\ schemaRejects = {} => FuelParserHasHeating
    /\ (~SpendOrEnergyGiven /\ SizeGiven) =>
         /\ ~FuelParserHasHeating
         /\ HeatingParserHasHeating \/ HeatingParserRejected
         /\ schemaRejects = {} => HeatingParserHasHeating
    /\ (~SpendOrEnergyGiven /\ ~SizeGiven) =>
         /\ ~FuelParserHasHeating
         /\ parserResults.heating = NullRows

\* NATURAL_GAS with both a heating spend and a facility size, both parsers run:
\* the fuel parser has the usage
C23_Witness ==
  /\ BothParsed /\ GasHeating
  /\ submission.heating.spend.given /\ SizeGiven
  /\ FuelParserHasHeating
  /\ parserResults.heating = NullRows

(* ---------------------------- starter requests --------------------------- *)
RequestFinished == request.op # "idle"
\* a stored starter entry lists the data source
Referenced(d) ==
  \E e \in EntryIds :
    /\ starterEntries[e].exists
    /\ \E n \in DOMAIN starterEntries[e].dataSources : starterEntries[e].dataSources[n] = d
\* normative-server does not hold the data source
Deleted(d) == normativeServer.dataSources[d] = 0
Unreferenced == {d \in request.uploaded : ~Referenced(d) /\ ~Deleted(d)}

\* C25: once a create, update or resubmit request has finished, with or without
\* an error, every data source uploaded for it is referenced by a stored starter
\* entry or has been deleted
C25_NoUnreferencedDataSource ==
  RequestFinished => Unreferenced = {}

\* a request that succeeded left every data source it uploaded referenced
C25_SuccessLeavesUploadsReferenced ==
  (RequestFinished /\ request.result.kind = "ok") => Unreferenced = {}

\* an update uploaded a data source, was refused for its entry id afterwards and
\* left the data source on normative-server with no entry referring to it
C25_RefusedUpdateLeftDataSource ==
  /\ request.op = "updateStarterEntry"
  /\ request.result.kind \in {NotFoundException, BadRequestException}
  /\ Unreferenced # {}

====
